---- MODULE Spec2Model ----
(***************************************************************************)
(* Training & certification tracker (src/App.tsx): the compliance engine   *)
(* (date arithmetic, due-date resolver, status classifier, KPIs), the       *)
(* mutation API of the App component, the assignment form and the CSV       *)
(* export / import.                                                         *)
(*                                                                          *)
(* Conventions.                                                             *)
(*  - An ISO date string "YYYY-MM-DD" is the triple <<y, m, d>>; an absent  *)
(*    value (undefined, null, "") is the empty tuple <<>>.                  *)
(*  - A JavaScript Date is its UTC instant counted in hours since           *)
(*    1970-01-01T00:00Z.  The host's time zone is the fixed offset tz       *)
(*    (hours east of UTC); daylight-saving changes are not modelled.        *)
(*  - A string that goes through the CSV code is a sequence of tokens: the  *)
(*    characters the regular expressions look at (comma, double quote,      *)
(*    backslash, the letters n and r after a backslash) are one token each, *)
(*    any other run of characters is one opaque token.                      *)
(*  - uid() (Math.random) is modelled as the least identity that is not in  *)
(*    use anywhere in the state: identities are opaque and a collision-free *)
(*    draw is assumed.  SpecUid drops the assumption: there uid() is a draw *)
(*    from a finite set of identities, as it is in the program.             *)
(***************************************************************************)
EXTENDS Integers, Sequences, FiniteSets, TLC

VARIABLES
    employees,        \* useState<Employee[]>        (App.tsx:99)
    templates,        \* useState<TrainingTemplate[]> (App.tsx:100)
    records,          \* useState<TrainingRecord[]>  (App.tsx:101)
    soonWindowDays,   \* useState<number>(30)        (App.tsx:102)
    recordsEnriched,  \* the useMemo of App.tsx:140-148
    formEmpId,        \* AssignTrainingForm's empId state (App.tsx:729)
    formTmplId,       \* AssignTrainingForm's tmplId state (App.tsx:729)
    tab,              \* useState<"dashboard" | "data"> (App.tsx:103)
    reader,           \* FileReader reads in flight, each with its closure
    download,         \* the text of the last exported file
    exported,         \* the rows that text was made from (history)
    now,              \* the wall clock, UTC hours since the epoch
    tz,               \* the host's UTC offset in hours
    lastOp,           \* the handler that ran last (history)
    ops,              \* how many handlers have run (history)
    call,             \* the pure function applied last and its arguments
    ret               \* what it returned: <<>> before, <<value>> after

storeVars == <<employees, templates, records, soonWindowDays, recordsEnriched>>
uiVars == <<formEmpId, formTmplId, tab, reader, download, exported>>
clockVars == <<now, tz>>
fnVars == <<call, ret>>
vars == <<employees, templates, records, soonWindowDays, recordsEnriched,
          formEmpId, formTmplId, tab, reader, download, exported, now, tz,
          lastOp, ops, call, ret>>

\* undefined / null / "": the absent value of an optional field.
None == <<>>

Some(x) == <<x>>

IsNone(v) == v = <<>>

Min(a, b) == IF a <= b THEN a ELSE b

(***************************************************************************)
(* The calendar: day numbers since 1970-01-01 of the proleptic Gregorian   *)
(* calendar, as ECMAScript's MakeDay and the Date getters compute them.     *)
(***************************************************************************)
HoursPerDay == 24

IsLeap(y) == (y % 4 = 0 /\ y % 100 # 0) \/ y % 400 = 0

DaysInMonth(y, m) ==
    IF m = 2 THEN (IF IsLeap(y) THEN 29 ELSE 28)
    ELSE IF m \in {4, 6, 9, 11} THEN 30 ELSE 31

\* The day number of the civil date y-m-d (m in 1..12, d any integer), from
\* the March-based year yy and month mp.
DaysOfMarchYear(yy, mp, d) ==
    (yy \div 400) * 146097 + (yy % 400) * 365 + (yy % 400) \div 4
        - (yy % 400) \div 100 + (153 * mp + 2) \div 5 + d - 1 - 719468

DaysFromCivil(y, m, d) ==
    DaysOfMarchYear(IF m <= 2 THEN y - 1 ELSE y, IF m > 2 THEN m - 3 ELSE m + 9, d)

\* The civil date <<y, m, d>> of a day number, in stages: the day of the
\* 400-year era, the year of the era, the day of the (March-based) year, the
\* month.
CivilOfMonth(y, doy, mp) ==
    <<IF mp < 10 THEN y ELSE y + 1,
      IF mp < 10 THEN mp + 3 ELSE mp - 9,
      doy - (153 * mp + 2) \div 5 + 1>>

CivilOfDayOfYear(y, doy) == CivilOfMonth(y, doy, (5 * doy + 2) \div 153)

CivilOfYearOfEra(era, doe, yoe) ==
    CivilOfDayOfYear(yoe + era * 400, doe - (365 * yoe + yoe \div 4 - yoe \div 100))

CivilOfDayOfEra(era, doe) ==
    CivilOfYearOfEra(era, doe,
        (doe - doe \div 1460 + doe \div 36524 - doe \div 146096) \div 365)

CivilFromDays(z) ==
    CivilOfDayOfEra((z + 719468) \div 146097, (z + 719468) % 146097)

\* A date string that is not a calendar date: new Date(iso + "T00:00:00") is
\* an Invalid Date, whose time value is NaN.
InvalidDate == <<0, 0, 0>>

\* The NaN that daysUntil returns for such a string: every comparison with
\* it is false.
NaNDays == 1000000

\* new Date(iso + "T00:00:00"): a date-time without offset is LOCAL time.
\* Defined for calendar dates.
ParseLocal(iso) == DaysFromCivil(iso[1], iso[2], iso[3]) * HoursPerDay - tz

\* The local calendar fields of an instant: getFullYear, getMonth (0-based),
\* getDate, getHours.
FieldsOf(c, h) == [y |-> c[1], mi |-> c[2] - 1, d |-> c[3], h |-> h]

LocalFields(t) ==
    FieldsOf(CivilFromDays((t + tz) \div HoursPerDay), (t + tz) % HoursPerDay)

\* MakeDate(MakeDay(y, mi, d), h) in local time: the month index and the day
\* may lie outside their ranges and carry over (Feb 31 is Mar 2 or Mar 3).
MakeLocal(y, mi, d, h) ==
    (DaysFromCivil(y + (mi \div 12), (mi % 12) + 1, 1) + d - 1) * HoursPerDay + h - tz

\* Date.prototype.setMonth(getMonth() + months), setDate(d), in local time,
\* on a Date whose local fields are f.
SetMonthPlus(f, months) == MakeLocal(f.y, f.mi + months, f.d, f.h)

SetDateOf(f, d) == MakeLocal(f.y, f.mi, d, f.h)

SetDate(t, d) == SetDateOf(LocalFields(t), d)

\* toISOString().slice(0, 10): the UTC calendar date of an instant.
ToISODate(t) == CivilFromDays(t \div HoursPerDay)

\* const todayISO = () => new Date().toISOString().slice(0, 10)
todayISO == ToISODate(now)

\* new Date(now.toDateString()).getTime(): local midnight of the local day.
LocalMidnight(t) == ((t + tz) \div HoursPerDay) * HoursPerDay - tz

\* The calendar date on the host's wall clock.
LocalToday == CivilFromDays((now + tz) \div HoursPerDay)

\* if (d.getDate() < day) d.setDate(0); return d.toISOString().slice(0, 10)
\* where d1 is the Date after setMonth.
ClampToMonthEnd(day, d1) ==
    ToISODate(IF LocalFields(d1).d < day THEN SetDate(d1, 0) ELSE d1)

\* const day = d.getDate(); d.setMonth(d.getMonth() + months); ...
\* where f0 are the local fields of new Date(isoDate + "T00:00:00").
AddMonthsFields(f0, months) == ClampToMonthEnd(f0.d, SetMonthPlus(f0, months))

\* Whether addMonths(isoDate, months) raises: toISOString() of an Invalid
\* Date is a RangeError.
addMonthsThrows(isoDate) == isoDate = InvalidDate

\* The string addMonths returns when it does not raise.
addMonths(isoDate, months) == AddMonthsFields(LocalFields(ParseLocal(isoDate)), months)

\* daysUntil, with the instant its "new Date()" returns.
daysUntilAt(isoDate, t) ==
    IF IsNone(isoDate) THEN None
    ELSE IF isoDate = InvalidDate THEN Some(NaNDays)
    ELSE Some((ParseLocal(isoDate) - LocalMidnight(t)) \div HoursPerDay)

daysUntil(isoDate) == daysUntilAt(isoDate, now)

(***************************************************************************)
(* IEEE-754 binary64 arithmetic, as far as kpis needs it: the quotient of   *)
(* two small naturals, its product with 100, and Math.round.  A positive    *)
(* double is a pair [bits, exp]: the significand's bits, most significant   *)
(* first, and the power of two its last bit counts.                         *)
(***************************************************************************)
MantissaBits == 53

RECURSIVE Reverse(_)
Reverse(s) == IF s = <<>> THEN <<>> ELSE Append(Reverse(Tail(s)), Head(s))

RECURSIVE BitsToInt(_)
BitsToInt(bits) ==
    IF bits = <<>> THEN 0
    ELSE 2 * BitsToInt(SubSeq(bits, 1, Len(bits) - 1)) + bits[Len(bits)]

\* The next k bits of the binary expansion of r / n, for 0 <= r < n.
RECURSIVE DivBits(_, _, _)
DivBits(r, n, k) ==
    IF k = 0 THEN <<>>
    ELSE LET b == IF 2 * r >= n THEN 1 ELSE 0
         IN  <<b>> \o DivBits(2 * r - b * n, n, k - 1)

\* The remainder left after those k bits.
RECURSIVE DivRem(_, _, _)
DivRem(r, n, k) ==
    IF k = 0 THEN r
    ELSE DivRem(2 * r - (IF 2 * r >= n THEN n ELSE 0), n, k - 1)

\* The least e >= from with c * 2^e >= n (c > 0).
RECURSIVE NormShift(_, _, _)
NormShift(c, n, from) == IF c >= n THEN from ELSE NormShift(2 * c, n, from + 1)

RECURSIVE Pow2(_)
Pow2(e) == IF e = 0 THEN 1 ELSE 2 * Pow2(e - 1)

\* bits + 1, least significant bit first.
RECURSIVE IncLsb(_)
IncLsb(bits) ==
    IF bits = <<>> THEN <<1>>
    ELSE IF Head(bits) = 0 THEN <<1>> \o Tail(bits)
    ELSE <<0>> \o IncLsb(Tail(bits))

\* bits * k + carry for a small k, least significant bit first.
RECURSIVE MulSmallLsb(_, _, _)
MulSmallLsb(bits, k, carry) ==
    IF bits = <<>>
    THEN (IF carry = 0 THEN <<>> ELSE <<carry % 2>> \o MulSmallLsb(<<>>, k, carry \div 2))
    ELSE LET t == Head(bits) * k + carry
         IN  <<t % 2>> \o MulSmallLsb(Tail(bits), k, t \div 2)

\* Round-to-nearest, ties-to-even, of an exact significand (most significant
\* bit first, leading bit 1) to MantissaBits bits; more tells whether
\* nonzero bits follow the ones given.
RoundNearestEven(bits, exp, more) ==
    IF Len(bits) <= MantissaBits THEN [bits |-> bits, exp |-> exp]
    ELSE LET kept   == SubSeq(bits, 1, MantissaBits)
             rest   == SubSeq(bits, MantissaBits + 1, Len(bits))
             guard  == rest[1]
             sticky == more \/ \E i \in 2..Len(rest) : rest[i] = 1
             up     == guard = 1 /\ (sticky \/ kept[MantissaBits] = 1)
         IN  [bits |-> IF up THEN Reverse(IncLsb(Reverse(kept))) ELSE kept,
              exp  |-> exp + Len(rest)]

\* c / n in binary64, for naturals 0 <= c <= n, n > 0 (zero has no bits).
FloatDiv(c, n) ==
    IF c = 0 THEN [bits |-> <<>>, exp |-> 0] ELSE
    LET e    == NormShift(c, n, 0)
        r0   == c * Pow2(e) - n
        bits == <<1>> \o DivBits(r0, n, MantissaBits)
        rem  == DivRem(r0, n, MantissaBits)
    IN  RoundNearestEven(bits, 0 - MantissaBits - e, rem > 0)

\* x * k in binary64, for a small natural k.
FloatMulSmall(x, k) ==
    RoundNearestEven(Reverse(MulSmallLsb(Reverse(x.bits), k, 0)), x.exp, FALSE)

\* Math.round(x): the integer nearest to x, a tie going up: floor(x + 1/2)
\* computed exactly.
MathRound(x) ==
    LET intBits == Len(x.bits) + x.exp
    IN  IF x.exp >= 0 THEN BitsToInt(x.bits) * Pow2(x.exp)
        ELSE IF intBits < 0 THEN 0
        ELSE BitsToInt(SubSeq(x.bits, 1, intBits)) + x.bits[intBits + 1]

(***************************************************************************)
(* The due-date resolver and the status classifier.                         *)
(* An employee is [id, name, department]; a template [id, name,             *)
(* renewalMonths]; a record [id, employeeId, templateId, trainingName,      *)
(* completionDate, dueDate, renewalMonths].  renewalMonths is None or       *)
(* Some(n); an optional template or employee is None or Some(t).  The       *)
(* description, category, delivery and notes fields take no part in what is *)
(* modelled here.                                                           *)
(***************************************************************************)
Statuses == {"overdue", "due-soon", "ok", "unscheduled"}

\* "" : no identity (an unset select, an undefined templateId).
NoId == 0

nextDueFor_DueDateFirst(record, template) ==
    LET o == IF record.renewalMonths # None THEN record.renewalMonths
             ELSE IF template # None THEN template[1].renewalMonths ELSE None
        renewal == IF o = None THEN 0 ELSE o[1]
    IN  IF record.dueDate # None THEN record.dueDate
        ELSE IF record.completionDate # None /\ renewal > 0
        THEN addMonths(record.completionDate, renewal)
        ELSE None

nextDueFor(record, template) ==
    LET o == IF record.renewalMonths # None THEN record.renewalMonths
             ELSE IF template # None THEN template[1].renewalMonths ELSE None
        renewal == IF o = None THEN 0 ELSE o[1]
    IN  IF record.completionDate # None /\ renewal > 0
        THEN addMonths(record.completionDate, renewal)
        ELSE IF record.dueDate # None THEN record.dueDate
        ELSE None

\* Whether nextDueFor(record, template) raises: it does where it calls
\* addMonths with a completionDate that is not a calendar date.  statusFor
\* and the enrichment of a row call nextDueFor first and raise with it.
nextDueForThrows(record, template) ==
    LET o == IF record.renewalMonths # None THEN record.renewalMonths
             ELSE IF template # None THEN template[1].renewalMonths ELSE None
        renewal == IF o = None THEN 0 ELSE o[1]
    IN  record.completionDate # None /\ renewal > 0 /\ addMonthsThrows(record.completionDate)

\* A classifier whose window excludes its last day.
Classify_StrictWindow(nextDue, d, soon) ==
    IF nextDue = None THEN "unscheduled"
    ELSE IF d # None /\ d[1] # NaNDays /\ d[1] < 0 THEN "overdue"
    ELSE IF d # None /\ d[1] # NaNDays /\ d[1] < soon THEN "due-soon"
    ELSE "ok"

\* The classification of a next-due date that lies d days ahead.
Classify(nextDue, d, soon) ==
    IF nextDue = None THEN "unscheduled"
    ELSE IF d # None /\ d[1] # NaNDays /\ d[1] < 0 THEN "overdue"
    ELSE IF d # None /\ d[1] # NaNDays /\ d[1] <= soon THEN "due-soon"
    ELSE "ok"

\* const d = daysUntil(nextDue), sampled at instant t.
StatusOfAt(nextDue, soon, t) == Classify(nextDue, daysUntilAt(nextDue, t), soon)

statusFor(record, template, soon) == StatusOfAt(nextDueFor(record, template), soon, now)

(***************************************************************************)
(* Enrichment and KPIs.                                                     *)
(***************************************************************************)
\* Array.prototype.find: the first element with the property, or undefined.
FindFirst(seq, P(_)) ==
    LET hits == {i \in 1..Len(seq) : P(seq[i])}
    IN  IF hits = {} THEN None
        ELSE Some(seq[CHOOSE i \in hits : \A j \in hits : i <= j])

\* The view row of record r once its employee, template, next-due date and
\* status are known.
EnrichedRow(r, emp, tmpl, nd, st) ==
    [id |-> r.id, employeeId |-> r.employeeId, templateId |-> r.templateId,
     trainingName |-> r.trainingName, completionDate |-> r.completionDate,
     dueDate |-> r.dueDate, renewalMonths |-> r.renewalMonths,
     employee |-> emp, template |-> tmpl, nextDue |-> nd, status |-> st,
     nextDueDays |-> daysUntil(nd)]

EnrichResolved(r, emp, tmpl, soon) ==
    EnrichedRow(r, emp, tmpl, nextDueFor(r, tmpl), statusFor(r, tmpl, soon))

\* templates.find(by id) || templates.find(by name)
ResolveTemplate(r, tmpls) ==
    LET ById(t) == t.id = r.templateId
        ByName(t) == t.name = r.trainingName
    IN  IF \E i \in 1..Len(tmpls) : ById(tmpls[i])
        THEN FindFirst(tmpls, ById) ELSE FindFirst(tmpls, ByName)

EnrichRow(r, emps, tmpls, soon) ==
    LET ByEmp(e) == e.id = r.employeeId
    IN  EnrichResolved(r, FindFirst(emps, ByEmp), ResolveTemplate(r, tmpls), soon)

Enrich(recs, emps, tmpls, soon) ==
    [i \in 1..Len(recs) |-> EnrichRow(recs[i], emps, tmpls, soon)]

kpis(rows) ==
    LET HasDue(r) == r.nextDue # None
        NotOverdue(r) == r.status # "overdue"
        withDue == SelectSeq(rows, HasDue)
        compliant == Len(SelectSeq(withDue, NotOverdue))
        Within(days) ==
            LET In(r) == r.nextDueDays # None /\ r.nextDueDays[1] # NaNDays
                         /\ r.nextDueDays[1] >= 0 /\ r.nextDueDays[1] <= days
            IN  Len(SelectSeq(withDue, In))
    IN  [compliancePct |-> IF Len(withDue) # 0
                           THEN MathRound(FloatMulSmall(FloatDiv(compliant, Len(withDue)), 100))
                           ELSE 100,
         next3 |-> Within(90), next24m |-> Within(24 * 30), next36m |-> Within(36 * 30)]

(***************************************************************************)
(* Bounds and input sets.                                                   *)
(***************************************************************************)
\* The first day of the clock, and the instants the clock can show: the
\* clock starts one hour before UTC midnight and ticks TickHours at a time.
Day0 == <<2025, 9, 1>>

TickHours == 2

MaxTicks == 1

ClockStart == DaysFromCivil(Day0[1], Day0[2], Day0[3]) * HoursPerDay + 23

ClockInstants == {ClockStart + k * TickHours : k \in 0..MaxTicks}

\* Hours east of UTC: New York (winter), UTC, Paris (summer).
TzOffsets == {-5, 0, 2}

PlusDays(iso, k) == CivilFromDays(DaysFromCivil(iso[1], iso[2], iso[3]) + k)

MaxAhead == 32

MaxMonths == 13

MaxKpiRows == 40

FnDates == {<<2024, 1, 31>>, <<2023, 1, 31>>, <<2024, 3, 31>>, <<2024, 2, 29>>,
            <<2024, 12, 15>>, <<2025, 5, 30>>}

\* Due dates around today and around each window's boundary.
FnDueDates == {None} \cup {PlusDays(Day0, k) : k \in {-1, 0, 1, 2, 7, 8, 9, 30, 31, MaxAhead}}

FnCompletions == {None, <<2024, 1, 31>>, <<2025, 8, 31>>}

FnRenewals == {None, Some(0), Some(1)}

FnTemplates == {None} \cup
    {Some([id |-> 1, name |-> <<"WHMIS">>, renewalMonths |-> m]) : m \in {None, Some(0), Some(12)}}

FnSoonWindows == {1, 7, 30}

FnRecords ==
    {[id |-> 1, employeeId |-> 1, templateId |-> NoId, trainingName |-> <<"WHMIS">>,
      completionDate |-> c, dueDate |-> d, renewalMonths |-> m] :
        c \in FnCompletions, d \in FnDueDates, m \in FnRenewals}

\* Enriched rows for kpis: nOk rows that are not overdue, nOver overdue rows
\* and nUns rows without a next-due date.
KpiRows(nOk, nOver, nUns) ==
    [i \in 1..(nOk + nOver + nUns) |->
        IF i <= nOk
        THEN [nextDue |-> PlusDays(Day0, 100), status |-> "ok", nextDueDays |-> Some(100)]
        ELSE IF i <= nOk + nOver
        THEN [nextDue |-> PlusDays(Day0, -3), status |-> "overdue", nextDueDays |-> Some(-3)]
        ELSE [nextDue |-> None, status |-> "unscheduled", nextDueDays |-> None]]

(***************************************************************************)
(* The state after construction (App.tsx:99-113): empty collections, the    *)
(* default window, an empty form, nothing in flight.                        *)
(***************************************************************************)
DefaultSoonWindow == 30

InitStore ==
    /\ employees = <<>>
    /\ templates = <<>>
    /\ records = <<>>
    /\ soonWindowDays = DefaultSoonWindow
    /\ recordsEnriched = <<>>
    /\ formEmpId = NoId
    /\ formTmplId = NoId
    /\ tab = "dashboard"
    /\ reader = <<>>
    /\ download = <<>>
    /\ exported = <<>>
    /\ lastOp = [op |-> "init"]
    /\ ops = 0
    /\ call = [fn |-> "none"]
    /\ ret = None

(***************************************************************************)
(* The pure functions applied to drawn inputs: one application per          *)
(* behaviour, from the state after construction.                            *)
(***************************************************************************)
InitFn ==
    /\ InitStore
    /\ tz \in TzOffsets
    /\ now \in ClockInstants

CallAddMonths ==
    /\ call.fn = "none"
    /\ \E d \in FnDates, n \in (0 - MaxMonths)..MaxMonths :
        /\ call' = [fn |-> "addMonths", isoDate |-> d, months |-> n]
        /\ ret' = Some(addMonths(d, n))
        /\ UNCHANGED <<storeVars, uiVars, clockVars, lastOp, ops>>

CallNextDueFor ==
    /\ call.fn = "none"
    /\ \E r \in FnRecords, t \in FnTemplates :
        /\ call' = [fn |-> "nextDueFor", record |-> r, template |-> t]
        /\ ret' = Some(nextDueFor(r, t))
        /\ UNCHANGED <<storeVars, uiVars, clockVars, lastOp, ops>>

CallStatusFor ==
    /\ call.fn = "none"
    /\ \E r \in FnRecords, t \in FnTemplates, w \in FnSoonWindows :
        /\ call' = [fn |-> "statusFor", record |-> r, template |-> t, soon |-> w]
        /\ ret' = Some(statusFor(r, t, w))
        /\ UNCHANGED <<storeVars, uiVars, clockVars, lastOp, ops>>

CallKpis ==
    /\ call.fn = "none"
    /\ \E nOk \in 0..MaxKpiRows, nUns \in 0..1 :
        \E nOver \in 0..(MaxKpiRows - nOk) :
            /\ call' = [fn |-> "kpis", nOk |-> nOk, nOver |-> nOver, nUns |-> nUns]
            /\ ret' = Some(kpis(KpiRows(nOk, nOver, nUns)))
            /\ UNCHANGED <<storeVars, uiVars, clockVars, lastOp, ops>>

NextFn == CallAddMonths \/ CallNextDueFor \/ CallStatusFor \/ CallKpis

SpecFn == InitFn /\ [][NextFn]_vars

(***************************************************************************)
(* Claims about the pure functions (checked under SpecFn).                  *)
(***************************************************************************)
\* The renewal the resolver uses, as the specification words it: the
\* record's override, else the template's interval, else 0.
RenewalOf(record, template) ==
    IF record.renewalMonths # None THEN record.renewalMonths[1]
    ELSE IF template # None /\ template[1].renewalMonths # None
    THEN template[1].renewalMonths[1]
    ELSE 0

\* C2: nextDueFor follows the resolver order.  With renewal as above: a
\* completion date and a positive renewal give addMonths(completionDate,
\* renewal) whatever dueDate is stored; otherwise a stored dueDate is
\* returned verbatim; otherwise the result is absent.
C2_ResolverOrder ==
    call.fn = "nextDueFor" =>
        LET r == call.record
            renewal == RenewalOf(r, call.template)
        IN  /\ (r.completionDate # None /\ renewal > 0)
                => ret[1] = addMonths(r.completionDate, renewal)
            /\ (~(r.completionDate # None /\ renewal > 0) /\ r.dueDate # None)
                => ret[1] = r.dueDate
            /\ (~(r.completionDate # None /\ renewal > 0) /\ r.dueDate = None)
                => ret[1] = None

\* C2 witness: a completed record with a positive renewal and a stored
\* dueDate, resolved to a date that is not the stored one.
C2_Witness ==
    /\ call.fn = "nextDueFor"
    /\ call.record.completionDate # None
    /\ call.record.dueDate # None
    /\ call.record.renewalMonths = None
    /\ RenewalOf(call.record, call.template) > 0
    /\ ret[1] # call.record.dueDate

\* C3: statusFor gives exactly one status: unscheduled iff there is no
\* next-due date; otherwise, with d = daysUntil(nextDue), overdue iff d < 0,
\* due-soon iff 0 <= d <= soonWindowDays, ok iff d > soonWindowDays.
C3_StatusClassification ==
    call.fn = "statusFor" =>
        LET nd == nextDueFor(call.record, call.template)
            d  == daysUntil(nd)
        IN  /\ ret[1] \in Statuses
            /\ ret[1] = "unscheduled" <=> nd = None
            /\ nd # None =>
                /\ ret[1] = "overdue" <=> d[1] < 0
                /\ ret[1] = "due-soon" <=> (0 <= d[1] /\ d[1] <= call.soon)
                /\ ret[1] = "ok" <=> d[1] > call.soon

\* C3 witness: a record due exactly soonWindowDays days from today is
\* classified due-soon.
C3_Witness ==
    /\ call.fn = "statusFor"
    /\ nextDueFor(call.record, call.template) # None
    /\ daysUntil(nextDueFor(call.record, call.template)) = Some(call.soon)
    /\ ret[1] = "due-soon"

\* round(a / b) for naturals, b > 0: the nearest integer, a tie going up.
RoundHalfUp(a, b) == (2 * a + b) \div (2 * b)

\* C8: compliancePct is 100 when no row has a next-due date, and otherwise
\* round(100 * (rows with a next-due date that are not overdue) / (rows with
\* a next-due date)); unscheduled rows enter neither count.
C8_CompliancePct ==
    call.fn = "kpis" =>
        LET rows == KpiRows(call.nOk, call.nOver, call.nUns)
            due == {i \in 1..Len(rows) : rows[i].nextDue # None}
            good == {i \in due : rows[i].status # "overdue"}
        IN  ret[1].compliancePct =
                IF due = {} THEN 100
                ELSE RoundHalfUp(100 * Cardinality(good), Cardinality(due))

\* The calendar rule of the specification: n months later, the same day of
\* the month, clamped to the last day of the target month.
ClampedAddMonths(iso, n) ==
    LET mi == iso[2] - 1 + n
        y  == iso[1] + (mi \div 12)
        m  == (mi % 12) + 1
    IN  <<y, m, Min(iso[3], DaysInMonth(y, m))>>

\* C9: addMonths(date, n) is the date n calendar months later with the same
\* day of the month, clamped to the last day of the target month; so
\* addMonths(2024-01-31, 1) = 2024-02-29, addMonths(2023-01-31, 1) =
\* 2023-02-28 and addMonths(date, 0) = date.
C9_AddMonthsClamps ==
    call.fn = "addMonths" => ret[1] = ClampedAddMonths(call.isoDate, call.months)

(***************************************************************************)
(* The App component: the mutation API, the forms of the data tab, the      *)
(* quick actions of the records table.                                      *)
(***************************************************************************)
MaxEmployees == 2

MaxTemplates == 1

MaxRecords == 4

\* What the operator types into the forms.
EmployeeNames == {<<"Avery">>, <<"Maya">>}

DepartmentInputs == {<<>>}

TemplateNames == {<<"WHMIS">>}

TemplateRenewalInputs == {None, Some(12)}

\* The other fields of the assignment form at a click: a completed training
\* of the selected template, a custom training with a due date, one with
\* both dates and a renewal override, and one with a zero override only.
FormFillings ==
    {[customName |-> <<>>, completion |-> <<2025, 8, 31>>, due |-> None, renewal |-> None],
     [customName |-> <<"WHMIS">>, completion |-> None, due |-> <<2025, 9, 30>>,
      renewal |-> None],
     [customName |-> <<"WHMIS">>, completion |-> <<2025, 8, 31>>,
      due |-> <<2025, 9, 30>>, renewal |-> Some(1)],
     [customName |-> <<>>, completion |-> None, due |-> None, renewal |-> Some(0)]}

\* The identities of a collection.
IdsOf(seq) == {seq[i].id : i \in 1..Len(seq)}

\* uid(): the k-th least identity that is not in use.
RECURSIVE Fresh(_, _)
Fresh(used, k) ==
    LET least == CHOOSE n \in 1..(Cardinality(used) + 1) : n \notin used
    IN  IF k = 1 THEN least ELSE Fresh(used \cup {least}, k - 1)

\* The employee identities some part of the state still holds.
EmployeeIdsInUse ==
    IdsOf(employees) \cup {records[i].employeeId : i \in 1..Len(records)}
        \cup {formEmpId}
        \cup UNION {IdsOf(reader[i].employees) : i \in 1..Len(reader)}

TemplateIdsInUse ==
    IdsOf(templates) \cup {records[i].templateId : i \in 1..Len(records)}
        \cup {formTmplId}

\* Array.prototype.filter with "id !== given".
WithoutId(seq, id) ==
    LET Keep(x) == x.id # id IN SelectSeq(seq, Keep)

\* A cascade that forgets the records.
WithoutEmployee_KeepAll(recs, id) == recs

WithoutEmployee(recs, id) ==
    LET Keep(r) == r.employeeId # id IN SelectSeq(recs, Keep)

WithoutTemplate_KeepAll(recs, id) == recs

WithoutTemplate(recs, id) ==
    LET Keep(r) == r.templateId # id IN SelectSeq(recs, Keep)

\* The number of handler invocations a behaviour is followed for.
MaxOps == 6

\* A handler runs: the history variables record it.
Handled(op) ==
    /\ ops < MaxOps
    /\ ops' = ops + 1
    /\ lastOp' = op

\* The render that follows a state change: the useMemo recomputes.
Render(recs, emps, tmpls, soon) == Enrich(recs, emps, tmpls, soon)

Init ==
    /\ InitStore
    /\ tz \in TzOffsets
    /\ now = ClockStart

\* AddEmployeeForm's Add button: if(!name.trim()) return; onAdd(name.trim(),
\* dept.trim() || "General").
AddEmployee ==
    /\ tab = "data"
    /\ Len(employees) < MaxEmployees
    /\ \E name \in EmployeeNames, dept \in DepartmentInputs :
        LET e == [id |-> Fresh(EmployeeIdsInUse, 1), name |-> name,
                  department |-> IF dept = <<>> THEN <<"General">> ELSE dept]
        IN  /\ employees' = Append(employees, e)
            /\ recordsEnriched' = Render(records, employees', templates, soonWindowDays)
            /\ Handled([op |-> "addEmployee", id |-> e.id])
    /\ UNCHANGED <<templates, records, soonWindowDays, uiVars, clockVars, fnVars>>

\* The trash button of an employee's line.
RemoveEmployee ==
    /\ tab = "data"
    /\ \E id \in IdsOf(employees) :
        /\ employees' = WithoutId(employees, id)
        /\ records' = WithoutEmployee(records, id)
        /\ recordsEnriched' = Render(records', employees', templates, soonWindowDays)
        /\ Handled([op |-> "removeEmployee", id |-> id,
                    removed |-> Len(records) - Len(records')])
    /\ UNCHANGED <<templates, soonWindowDays, uiVars, clockVars, fnVars>>

\* AddTemplateForm's Add button; category, delivery and description are not
\* modelled.
AddTemplate ==
    /\ tab = "data"
    /\ Len(templates) < MaxTemplates
    /\ \E name \in TemplateNames, renewal \in TemplateRenewalInputs :
        LET t == [id |-> Fresh(TemplateIdsInUse, 1), name |-> name, renewalMonths |-> renewal]
        IN  /\ templates' = Append(templates, t)
            /\ recordsEnriched' = Render(records, employees, templates', soonWindowDays)
            /\ Handled([op |-> "addTemplate", id |-> t.id])
    /\ UNCHANGED <<employees, records, soonWindowDays, uiVars, clockVars, fnVars>>

RemoveTemplate ==
    /\ tab = "data"
    /\ \E k \in 1..Len(templates) :
        /\ templates' = WithoutId(templates, templates[k].id)
        /\ records' = WithoutTemplate(records, templates[k].id)
        /\ recordsEnriched' = Render(records', employees, templates', soonWindowDays)
        /\ Handled([op |-> "removeTemplate", id |-> templates[k].id,
                    name |-> templates[k].name,
                    removed |-> Len(records) - Len(records')])
    /\ UNCHANGED <<employees, soonWindowDays, uiVars, clockVars, fnVars>>

(***************************************************************************)
(* CSV text.  A text is a sequence of tokens; the tokens the code's regular *)
(* expressions tell apart are the comma, the double quote, the backslash,   *)
(* the letters n and r where they follow a backslash, the line feed and the *)
(* space.  An ISO date is the five tokens year, "-", month, "-", day.       *)
(***************************************************************************)
Comma == ","

Quote == "\""

Backslash == "\\"

LineFeed == "\n"

Space == " "

RECURSIVE Flatten(_)
Flatten(parts) == IF parts = <<>> THEN <<>> ELSE Head(parts) \o Flatten(Tail(parts))

\* Array.prototype.join(sep) of texts.
JoinWith(parts, sep) ==
    Flatten([i \in 1..Len(parts) |-> IF i = 1 THEN parts[i] ELSE sep \o parts[i]])

Pad2(n) == IF n < 10 THEN "0" \o ToString(n) ELSE ToString(n)

\* String(v) of the values a row holds.
DateText(d) == IF d = None THEN <<>> ELSE <<ToString(d[1]), "-", Pad2(d[2]), "-", Pad2(d[3])>>

NumberText(n) == <<ToString(n)>>

\* `"${String(v).replace(/"/g, '""')}"`
QuoteField(v) ==
    <<Quote>> \o Flatten([i \in 1..Len(v) |-> IF v[i] = Quote THEN <<Quote, Quote>> ELSE <<v[i]>>])
        \o <<Quote>>

ExportHeader ==
    <<"employee", "department", "training", "completionDate", "dueDate",
      "renewalMonths", "nextDue", "status", "category", "delivery">>

\* One exported row of an enriched row; templates carry no category or
\* delivery in this model, so the last two cells are empty.
ExportRow(r) ==
    << IF r.employee = None THEN <<>> ELSE r.employee[1].name,
       IF r.employee = None THEN <<>> ELSE r.employee[1].department,
       r.trainingName,
       DateText(r.completionDate),
       DateText(r.dueDate),
       IF r.renewalMonths # None THEN NumberText(r.renewalMonths[1])
       ELSE IF r.template # None /\ r.template[1].renewalMonths # None
       THEN NumberText(r.template[1].renewalMonths[1]) ELSE <<>>,
       DateText(r.nextDue),
       <<r.status>>,
       <<>>,
       <<>> >>

ExportLine(cells) == JoinWith([i \in 1..Len(cells) |-> QuoteField(cells[i])], <<Comma>>)

\* [header.join(","), ...rows.map(...)].join("\\n"): the separator is the
\* two characters backslash and n.
exportCSV(rows) ==
    JoinWith(<<JoinWith([i \in 1..Len(ExportHeader) |-> <<ExportHeader[i]>>], <<Comma>>)>>
                \o [i \in 1..Len(rows) |-> ExportLine(ExportRow(rows[i]))],
             <<Backslash, "n">>)

\* The length of the match of /\\r?\\n/ at position i of text (0: no match):
\* a backslash, an optional r, a backslash, an n.
LineBreakAt(text, i) ==
    IF text[i] # Backslash THEN 0
    ELSE IF i + 2 <= Len(text) /\ text[i + 1] = Backslash /\ text[i + 2] = "n" THEN 3
    ELSE IF i + 3 <= Len(text) /\ text[i + 1] = "r" /\ text[i + 2] = Backslash
            /\ text[i + 3] = "n" THEN 4
    ELSE 0

\* The least position of positions, 0 when there is none.
FirstOf(positions) ==
    IF positions = {} THEN 0 ELSE CHOOSE j \in positions : \A k \in positions : j <= k

\* The position of the leftmost match of /\\r?\\n/ at or after start.
NextLineBreak(text, start) ==
    FirstOf({j \in start..Len(text) : LineBreakAt(text, j) > 0})

\* text.split(/\\r?\\n/): the pieces of text from position start, the next
\* match being at position at (0: none).
RECURSIVE SplitLinesFrom(_, _)
SplitLinesAt(text, start, at) ==
    IF at = 0 THEN <<SubSeq(text, start, Len(text))>>
    ELSE <<SubSeq(text, start, at - 1)>> \o SplitLinesFrom(text, at + LineBreakAt(text, at))

SplitLinesFrom(text, start) == SplitLinesAt(text, start, NextLineBreak(text, start))

\* .filter(Boolean)
NonEmpty(piece) == piece # <<>>

\* A split that also breaks the text at its line feeds.
SplitLines_AtLineFeed(text) ==
    SelectSeq(SplitLinesFrom(
                  Flatten([i \in 1..Len(text) |->
                              IF text[i] = LineFeed THEN <<Backslash, Backslash, "n">>
                              ELSE <<text[i]>>]), 1),
              NonEmpty)

SplitLines(text) == SelectSeq(SplitLinesFrom(text, 1), NonEmpty)

\* The lookahead (?=(?:[^\\"]*\\"[^\\"]*\\")*[^\\"]*$) from position i: up to
\* the end, characters other than backslash and quote, and an even number of
\* backslash-quote pairs. Every backslash is followed by a quote, every
\* quote follows a backslash of the tail, and the backslashes are even.
BalancedTail(text, i) ==
    LET tail == i..Len(text)
    IN  /\ \A j \in tail : text[j] = Backslash => (j + 1 <= Len(text) /\ text[j + 1] = Quote)
        /\ \A j \in tail : text[j] = Quote => (j - 1 >= i /\ text[j - 1] = Backslash)
        /\ Cardinality({j \in tail : text[j] = Backslash}) % 2 = 0

\* The position of the leftmost separator at or after start: a comma, for
\* split(","), and a comma the lookahead accepts, for split(/,(?=...)/).
NextComma(text, start, lookahead) ==
    FirstOf({j \in start..Len(text) :
                text[j] = Comma /\ (lookahead => BalancedTail(text, j + 1))})

\* split(",") when lookahead is FALSE, split(/,(?=...)/) when it is TRUE: the
\* pieces of text from position start, the next separator being at position at.
RECURSIVE SplitCommasFrom(_, _, _)
SplitCommasAt(text, start, at, lookahead) ==
    IF at = 0 THEN <<SubSeq(text, start, Len(text))>>
    ELSE <<SubSeq(text, start, at - 1)>> \o SplitCommasFrom(text, at + 1, lookahead)

SplitCommasFrom(text, start, lookahead) ==
    SplitCommasAt(text, start, NextComma(text, start, lookahead), lookahead)

\* String.prototype.trim
RECURSIVE TrimLeft(_)
TrimLeft(text) ==
    IF text # <<>> /\ Head(text) \in {Space, LineFeed} THEN TrimLeft(Tail(text)) ELSE text

Trim(text) == Reverse(TrimLeft(Reverse(TrimLeft(text))))

\* .replace(/^"|"$/g, ""): one leading and one trailing quote go.
StripLeadingQuote(text) == IF text # <<>> /\ Head(text) = Quote THEN Tail(text) ELSE text

StripTrailingQuote(text) ==
    IF text # <<>> /\ text[Len(text)] = Quote THEN SubSeq(text, 1, Len(text) - 1) ELSE text

CleanCell(text) == StripTrailingQuote(StripLeadingQuote(Trim(text)))

CleanCells(cells) == [i \in 1..Len(cells) |-> CleanCell(cells[i])]

\* String.prototype.toLowerCase, on the words of this model.
LowerCase(tok) ==
    CASE tok \in {"Employee", "EMPLOYEE"} -> "employee"
      [] tok = "Department" -> "department"
      [] tok = "Training" -> "training"
      [] tok = "completionDate" -> "completiondate"
      [] tok = "dueDate" -> "duedate"
      [] tok = "renewalMonths" -> "renewalmonths"
      [] OTHER -> tok

\* header.findIndex(h => h.toLowerCase() === name.toLowerCase()), 1-based;
\* 0 when there is none.
HeaderIndex(header, name) ==
    LET hits == {i \in 1..Len(header) :
                    [j \in 1..Len(header[i]) |-> LowerCase(header[i][j])] = <<LowerCase(name)>>}
    IN  IF hits = {} THEN 0 ELSE CHOOSE i \in hits : \A j \in hits : i <= j

\* cols[i] || "": an index outside the array gives undefined.
Cell(cols, i) == IF i \in 1..Len(cols) THEN cols[i] ELSE <<>>

\* The years a date cell may name, and the largest renewal a cell may name.
MinYear == 2020

MaxYear == 2030

MaxRenewalText == 36

\* Number(text) of something that is not a numeral; comparisons with it fail,
\* as they do with a non-positive number.
NaN == -1

\* The date a stored string denotes: the store of this model holds dates, so
\* a cell's text is read back when it is stored.
DateOfText(text) ==
    IF text = <<>> THEN None
    ELSE IF Len(text) = 5 /\ text[2] = "-" /\ text[4] = "-"
            /\ \E y \in MinYear..MaxYear, m \in 1..12 :
                /\ ToString(y) = text[1] /\ Pad2(m) = text[3]
                /\ \E d \in 1..DaysInMonth(y, m) : Pad2(d) = text[5]
    THEN << CHOOSE y \in MinYear..MaxYear : ToString(y) = text[1],
            CHOOSE m \in 1..12 : Pad2(m) = text[3],
            CHOOSE d \in 1..31 : Pad2(d) = text[5] >>
    ELSE InvalidDate

\* cols[iRenew] ? Number(cols[iRenew]) : undefined
RenewalOfText(text) ==
    IF text = <<>> THEN None
    ELSE IF Len(text) = 1 /\ \E n \in 0..MaxRenewalText : ToString(n) = text[1]
    THEN Some(CHOOSE n \in 0..MaxRenewalText : ToString(n) = text[1])
    ELSE Some(NaN)

\* The positions of the columns the import reads.
ColumnIndexes(header) ==
    [emp |-> HeaderIndex(header, "employee"), dept |-> HeaderIndex(header, "department"),
     train |-> HeaderIndex(header, "training"), comp |-> HeaderIndex(header, "completionDate"),
     due |-> HeaderIndex(header, "dueDate"), renew |-> HeaderIndex(header, "renewalMonths")]

\* The fields read from one data line, given its cells.
ParsedCells(cols, ix) ==
    [empName  |-> Cell(cols, ix.emp),
     dept     |-> IF Cell(cols, ix.dept) = <<>> THEN <<"General">> ELSE Cell(cols, ix.dept),
     training |-> IF Cell(cols, ix.train) = <<>> THEN <<"Training">> ELSE Cell(cols, ix.train),
     comp     |-> DateOfText(Cell(cols, ix.comp)),
     due      |-> DateOfText(Cell(cols, ix.due)),
     renew    |-> RenewalOfText(Cell(cols, ix.renew))]

ParsedLine(line, ix) == ParsedCells(CleanCells(SplitCommasFrom(line, 1, TRUE)), ix)

\* `${name}||${dept}`
EmployeeKey(name, dept) == name \o <<"||">> \o dept

\* ensureEmp(name, dept): known are the values of newEmployees in insertion
\* order, stale the employees the handler's closure captured.
ensureEmp(known, stale, name, dept, usedIds) ==
    LET SameKey(e) == EmployeeKey(e.name, e.department) = EmployeeKey(name, dept)
        Existing(e) == e.name = name /\ e.department = dept
    IN  IF \E i \in 1..Len(known) : SameKey(known[i]) THEN FindFirst(known, SameKey)[1]
        ELSE IF \E i \in 1..Len(stale) : Existing(stale[i]) THEN FindFirst(stale, Existing)[1]
        ELSE [id |-> Fresh(usedIds \cup IdsOf(known), 1), name |-> name, department |-> dept]

ImportedRecord(row, emp, usedIds) ==
    [id |-> Fresh(usedIds, 1), employeeId |-> emp.id, templateId |-> NoId,
     trainingName |-> row.training, completionDate |-> row.comp, dueDate |-> row.due,
     renewalMonths |-> row.renew]

\* The loop over the data lines: known and recs grow line by line.
RECURSIVE ImportRows(_, _, _, _, _, _, _)
ImportRowWith(rows, i, stale, known, recs, empIds, recIds, emp) ==
    ImportRows(rows, i + 1, stale,
               IF \E k \in 1..Len(known) : known[k] = emp THEN known ELSE Append(known, emp),
               Append(recs, ImportedRecord(rows[i], emp, recIds \cup IdsOf(recs))),
               empIds, recIds)

ImportRows(rows, i, stale, known, recs, empIds, recIds) ==
    IF i > Len(rows) THEN [known |-> known, addRecs |-> recs]
    ELSE ImportRowWith(rows, i, stale, known, recs, empIds, recIds,
                       ensureEmp(known, stale, rows[i].empName, rows[i].dept, empIds))

\* What reader.onload computes from the text: whether it goes past the
\* "lines.length < 2" return, the employees to append and the records to
\* append.
ImportLines(lines, stale, empIds, recIds) ==
    ImportRows([i \in 1..(Len(lines) - 1) |->
                    ParsedLine(lines[i + 1],
                               ColumnIndexes(CleanCells(SplitCommasFrom(lines[1], 1, FALSE))))],
               1, stale, <<>>, <<>>, empIds, recIds)

\* Object.values(newEmployees).filter(e => !employees.some(ex => ex.id === e.id))
NewEmployeesOf(known, stale) ==
    LET IsNew(e) == e.id \notin IdsOf(stale) IN SelectSeq(known, IsNew)

(***************************************************************************)
(* The assignment form, the quick actions, import, export, the header       *)
(* buttons and the clock.                                                   *)
(***************************************************************************)
\* The select boxes of AssignTrainingForm: an option per listed employee or
\* template, and the empty option.
SelectEmployee ==
    /\ tab = "data"
    /\ \E id \in IdsOf(employees) \cup {NoId} :
        /\ id # formEmpId
        /\ formEmpId' = id
        /\ Handled([op |-> "selectEmployee", id |-> id])
    /\ UNCHANGED <<storeVars, formTmplId, tab, reader, download, exported, clockVars, fnVars>>

SelectTemplate ==
    /\ tab = "data"
    /\ \E id \in IdsOf(templates) \cup {NoId} :
        /\ id # formTmplId
        /\ formTmplId' = id
        /\ Handled([op |-> "selectTemplate", id |-> id])
    /\ UNCHANGED <<storeVars, formEmpId, tab, reader, download, exported, clockVars, fnVars>>

\* customName.trim() || (templates.find(t => t.id === tmplId)?.name || "")
effectiveName(customName, tmplId, tmpls) ==
    LET ById(t) == t.id = tmplId
    IN  IF customName # <<>> THEN customName
        ELSE IF \E i \in 1..Len(tmpls) : ById(tmpls[i]) THEN FindFirst(tmpls, ById)[1].name
        ELSE <<>>

\* assignTraining(data): the record appended to records.
assignTraining(recs, data) ==
    Append(recs, [id |-> Fresh(IdsOf(recs), 1),
                  employeeId |-> data.employeeId,
                  templateId |-> data.templateId,
                  trainingName |-> data.trainingName,
                  completionDate |-> data.completionDate,
                  dueDate |-> data.dueDate,
                  renewalMonths |-> IF data.renewalMonths = Some(0) THEN None
                                    ELSE data.renewalMonths])

\* The Assign button: the other fields of the form are drawn at the click.
AssignClick ==
    /\ tab = "data"
    /\ Len(records) < MaxRecords
    /\ formEmpId # NoId
    /\ \E fill \in FormFillings :
        /\ effectiveName(fill.customName, formTmplId, templates) # <<>>
        /\ records' = assignTraining(records,
                [employeeId |-> formEmpId, templateId |-> formTmplId,
                 trainingName |-> effectiveName(fill.customName, formTmplId, templates),
                 completionDate |-> fill.completion, dueDate |-> fill.due,
                 renewalMonths |-> fill.renewal])
        /\ recordsEnriched' = Render(records', employees, templates, soonWindowDays)
        /\ Handled([op |-> "assign", id |-> Fresh(IdsOf(records), 1),
                    override |-> fill.renewal])
    /\ formEmpId' = NoId
    /\ formTmplId' = NoId
    /\ UNCHANGED <<employees, templates, soonWindowDays, tab, reader, download, exported,
                   clockVars, fnVars>>

\* updateRecord(id, patch): { ...r, ...patch } on the record with that id.
updateRecord(recs, id, patch) ==
    [i \in 1..Len(recs) |->
        IF recs[i].id = id
        THEN [f \in DOMAIN recs[i] |-> IF f \in DOMAIN patch THEN patch[f] ELSE recs[i][f]]
        ELSE recs[i]]

\* The stored record a row of the table was made from (history: Mark done
\* notes the record it acted on, Clear completion the record a Mark done
\* right before it acted on).
RecordWithId(recs, id) == recs[CHOOSE j \in 1..Len(recs) : recs[j].id = id]

\* The quick actions act on a row r of the rendered table.  Which rows the
\* table shows depends on the operator's filters; every row can be shown.
\* A Mark done that leaves the stored dueDate in place.
MarkDone_KeepDue ==
    /\ tab = "dashboard"
    /\ \E i \in 1..Len(recordsEnriched) :
        /\ records' = updateRecord(records, recordsEnriched[i].id,
                                   [completionDate |-> todayISO])
        /\ Handled([op |-> "markDone", id |-> recordsEnriched[i].id,
                    before |-> RecordWithId(records, recordsEnriched[i].id)])
    /\ recordsEnriched' = Render(records', employees, templates, soonWindowDays)
    /\ UNCHANGED <<employees, templates, soonWindowDays, uiVars, clockVars, fnVars>>

MarkDone ==
    /\ tab = "dashboard"
    /\ \E i \in 1..Len(recordsEnriched) :
        /\ records' = updateRecord(records, recordsEnriched[i].id,
                                   [completionDate |-> todayISO, dueDate |-> None])
        /\ Handled([op |-> "markDone", id |-> recordsEnriched[i].id,
                    before |-> RecordWithId(records, recordsEnriched[i].id)])
    /\ recordsEnriched' = Render(records', employees, templates, soonWindowDays)
    /\ UNCHANGED <<employees, templates, soonWindowDays, uiVars, clockVars, fnVars>>

\* The days a snooze adds.
SnoozeDays == 30

\* const d = new Date(nd + "T00:00:00"); d.setDate(d.getDate() + 30);
\* d.toISOString().slice(0, 10)
SnoozedFields(f) == ToISODate(SetDateOf(f, f.d + SnoozeDays))

SnoozedDate(nd) == SnoozedFields(LocalFields(ParseLocal(nd)))

\* The latest stored due date a snooze is taken from (a snooze of a stored
\* due date moves it, so snoozes could go on for ever).
MaxSnoozeFrom == PlusDays(Day0, MaxAhead)

DateLeq(a, b) == DaysFromCivil(a[1], a[2], a[3]) <= DaysFromCivil(b[1], b[2], b[3])

\* const nd = r.nextDue || todayISO()
SnoozeBase(r) == IF r.nextDue # None THEN r.nextDue ELSE todayISO

Snooze ==
    /\ tab = "dashboard"
    /\ \E i \in 1..Len(recordsEnriched) :
        /\ \/ DateLeq(SnoozeBase(recordsEnriched[i]), MaxSnoozeFrom)
           \/ recordsEnriched[i].nextDue # recordsEnriched[i].dueDate
        /\ records' = updateRecord(records, recordsEnriched[i].id,
                                   [dueDate |-> SnoozedDate(SnoozeBase(recordsEnriched[i]))])
        /\ Handled([op |-> "snooze", id |-> recordsEnriched[i].id,
                     base |-> SnoozeBase(recordsEnriched[i])])
    /\ recordsEnriched' = Render(records', employees, templates, soonWindowDays)
    /\ UNCHANGED <<employees, templates, soonWindowDays, uiVars, clockVars, fnVars>>

ClearCompletion ==
    /\ tab = "dashboard"
    /\ \E i \in 1..Len(recordsEnriched) :
        /\ records' = updateRecord(records, recordsEnriched[i].id, [completionDate |-> None])
        /\ Handled([op |-> "clearCompletion", id |-> recordsEnriched[i].id,
                    undone |-> IF lastOp.op = "markDone" /\ lastOp.id = recordsEnriched[i].id
                               THEN Some(lastOp.before) ELSE None])
    /\ recordsEnriched' = Render(records', employees, templates, soonWindowDays)
    /\ UNCHANGED <<employees, templates, soonWindowDays, uiVars, clockVars, fnVars>>

RemoveRecord ==
    /\ tab = "dashboard"
    /\ \E i \in 1..Len(recordsEnriched) :
        /\ records' = WithoutId(records, recordsEnriched[i].id)
        /\ Handled([op |-> "removeRecord", id |-> recordsEnriched[i].id])
    /\ recordsEnriched' = Render(records', employees, templates, soonWindowDays)
    /\ UNCHANGED <<employees, templates, soonWindowDays, uiVars, clockVars, fnVars>>

\* The tab buttons; AssignTrainingForm is mounted on the data tab only, so
\* its state is lost when the tab is left.
SetTab ==
    /\ \E t \in {"dashboard", "data"} :
        /\ t # tab
        /\ tab' = t
        /\ Handled([op |-> "setTab", id |-> NoId])
    /\ formEmpId' = NoId
    /\ formTmplId' = NoId
    /\ UNCHANGED <<storeVars, reader, download, exported, clockVars, fnVars>>

\* The files the operator has at hand besides what the program exported.
\* Both hold one data line for Avery of General; the first separates its
\* lines with the characters the import splits at, the second with line
\* feeds, as a CSV file does.
FileHeader ==
    <<"employee", Comma, "department", Comma, "training", Comma, "completionDate",
      Comma, "dueDate", Comma, "renewalMonths">>

FileLine ==
    <<"Avery", Comma, "General", Comma, "WHMIS", Comma>> \o DateText(<<2025, 8, 31>>)
        \o <<Comma, Comma, "12">>

ImportFiles ==
    {FileHeader \o <<Backslash, Backslash, "n">> \o FileLine,
     FileHeader \o <<LineFeed>> \o FileLine}

MaxReaders == 1

\* The file input's onChange: importCSV(file) creates the reader, whose
\* onload closes over the employees of the current render, and starts the
\* read.
ImportCSV ==
    /\ tab = "dashboard"
    /\ Len(reader) < MaxReaders
    /\ \E file \in ImportFiles \cup (IF download = <<>> THEN {} ELSE {download}) :
        /\ reader' = Append(reader, [text |-> file, employees |-> employees])
        /\ Handled([op |-> "importCSV", id |-> NoId])
    /\ UNCHANGED <<storeVars, formEmpId, formTmplId, tab, download, exported, clockVars, fnVars>>

RemoveAt(seq, i) == SubSeq(seq, 1, i - 1) \o SubSeq(seq, i + 1, Len(seq))

\* The setEmployees / setRecords of reader.onload, given what it computed.
OnloadApply(res, stale) ==
    /\ Len(records) + Len(res.addRecs) <= MaxRecords
    /\ employees' = employees \o NewEmployeesOf(res.known, stale)
    /\ records' = records \o res.addRecs
    /\ recordsEnriched' = Render(records', employees', templates, soonWindowDays)
    /\ Handled([op |-> "onload", id |-> NoId, added |-> Len(res.addRecs),
                lines |-> Len(res.addRecs) + 1])

\* reader.onload for the lines of the text.
OnloadLines(lines, stale) ==
    IF Len(lines) < 2
    THEN /\ Handled([op |-> "onload", id |-> NoId, added |-> 0, lines |-> Len(lines)])
         /\ UNCHANGED <<employees, records, recordsEnriched>>
    ELSE OnloadApply(ImportLines(lines, stale, EmployeeIdsInUse, IdsOf(records)), stale)

ReaderOnload ==
    /\ \E i \in 1..Len(reader) :
        /\ OnloadLines(SplitLines(reader[i].text), reader[i].employees)
        /\ reader' = RemoveAt(reader, i)
    /\ UNCHANGED <<templates, soonWindowDays, formEmpId, formTmplId, tab, download, exported,
                   clockVars, fnVars>>

\* The Export button of the records table: the text of the downloaded file,
\* and (history) the rows it was made from.
ExportCSV ==
    /\ tab = "dashboard"
    /\ download' = exportCSV(recordsEnriched)
    /\ exported' = recordsEnriched
    /\ Handled([op |-> "exportCSV", id |-> NoId])
    /\ UNCHANGED <<storeVars, formEmpId, formTmplId, tab, reader, clockVars, fnVars>>

ClearAll ==
    /\ employees' = <<>>
    /\ templates' = <<>>
    /\ records' = <<>>
    /\ recordsEnriched' = <<>>
    /\ Handled([op |-> "clearAll", id |-> NoId])
    /\ UNCHANGED <<soonWindowDays, uiVars, clockVars, fnVars>>

\* seededData(), with the identities uid() gives: e, t and r are three fresh
\* identities each.
seededData(e, t, r) ==
    [employees |->
        <<[id |-> e[1], name |-> <<"Avery Chen">>, department |-> <<"Operations">>],
          [id |-> e[2], name |-> <<"Maya Singh">>, department |-> <<"Engineering">>],
          [id |-> e[3], name |-> <<"Leo Garcia">>, department |-> <<"HR">>]>>,
     templates |->
        <<[id |-> t[1], name |-> <<"First Aid / CPR">>, renewalMonths |-> Some(24)],
          [id |-> t[2], name |-> <<"WHMIS">>, renewalMonths |-> Some(12)],
          [id |-> t[3], name |-> <<"Forklift Certification">>, renewalMonths |-> Some(36)]>>,
     records |->
        <<[id |-> r[1], employeeId |-> e[1], templateId |-> t[1],
           trainingName |-> <<"First Aid / CPR">>, completionDate |-> <<2024, 11, 15>>,
           dueDate |-> None, renewalMonths |-> None],
          [id |-> r[2], employeeId |-> e[2], templateId |-> t[2],
           trainingName |-> <<"WHMIS">>, completionDate |-> <<2025, 8, 1>>,
           dueDate |-> None, renewalMonths |-> None],
          [id |-> r[3], employeeId |-> e[3], templateId |-> t[3],
           trainingName |-> <<"Forklift Certification">>, completionDate |-> None,
           dueDate |-> <<2025, 9, 30>>, renewalMonths |-> None]>>]

\* The employee identities that outlive a replacement of the collections:
\* those in the closures of pending readers.
ReaderEmployeeIds == UNION {IdsOf(reader[i].employees) : i \in 1..Len(reader)}

LoadSampleWith(d) ==
    /\ employees' = d.employees
    /\ templates' = d.templates
    /\ records' = d.records
    /\ recordsEnriched' = Render(d.records, d.employees, d.templates, soonWindowDays)

\* loadSample also goes to the dashboard, which unmounts the form.
LoadSample ==
    /\ LoadSampleWith(seededData([k \in 1..3 |-> Fresh(ReaderEmployeeIds, k)],
                                 [k \in 1..3 |-> k], [k \in 1..3 |-> k]))
    /\ tab' = "dashboard"
    /\ formEmpId' = NoId
    /\ formTmplId' = NoId
    /\ Handled([op |-> "loadSample", id |-> NoId])
    /\ UNCHANGED <<soonWindowDays, reader, download, exported, clockVars, fnVars>>

Next ==
    \/ AddEmployee \/ RemoveEmployee \/ AddTemplate \/ RemoveTemplate
    \/ SelectEmployee \/ SelectTemplate \/ AssignClick
    \/ MarkDone \/ Snooze \/ ClearCompletion \/ RemoveRecord
    \/ SetTab \/ ClearAll \/ LoadSample

Spec == Init /\ [][Next]_vars

(***************************************************************************)
(* Export and import on their own: the store holds one employee with one    *)
(* assignment, entered through the forms; names may hold a comma or quotes. *)
(***************************************************************************)
CsvNames == {<<"Avery">>, <<"Chen", Comma, Space, "Avery">>, <<Quote, "Ave", Quote>>}

CsvTrainings == {<<"WHMIS">>, <<"Fire", Comma, Space, "basics">>}

CsvCompletions == {None, <<2025, 8, 31>>}

CsvDues == {None, <<2025, 9, 30>>}

InitCsvStore(emps, recs) ==
    /\ employees = emps
    /\ templates = <<>>
    /\ records = recs
    /\ soonWindowDays = DefaultSoonWindow
    /\ recordsEnriched = Render(recs, emps, <<>>, DefaultSoonWindow)

InitCsv ==
    /\ tz \in TzOffsets
    /\ now = ClockStart
    /\ formEmpId = NoId
    /\ formTmplId = NoId
    /\ tab = "dashboard"
    /\ reader = <<>>
    /\ download = <<>>
    /\ exported = <<>>
    /\ lastOp = [op |-> "init"]
    /\ ops = 0
    /\ call = [fn |-> "none"]
    /\ ret = None
    /\ \E name \in CsvNames, training \in CsvTrainings,
          completion \in CsvCompletions, due \in CsvDues :
        InitCsvStore(<<[id |-> 1, name |-> name, department |-> <<"General">>]>>,
                     assignTraining(<<>>, [employeeId |-> 1, templateId |-> NoId,
                                           trainingName |-> training,
                                           completionDate |-> completion,
                                           dueDate |-> due, renewalMonths |-> None]))

NextCsv == ExportCSV \/ ImportCSV \/ ReaderOnload

SpecCsv == InitCsv /\ [][NextCsv]_vars

(***************************************************************************)
(* Claims about the mutation API and the quick actions (checked under       *)
(* Spec) and about the CSV round trip (checked under SpecCsv).              *)
(***************************************************************************)
\* The position of the element with identity id.
IndexOfId(seq, id) == CHOOSE i \in 1..Len(seq) : seq[i].id = id

\* C1: referential integrity.  After any sequence of the state-changing
\* operations every stored record's employeeId is the id of an employee that
\* is in the employees collection.
C1_ReferentialIntegrity ==
    \A i \in 1..Len(records) : records[i].employeeId \in IdsOf(employees)

\* C4: removeEmployee(id) removes the employee with that id and exactly the
\* records whose employeeId is id: the other records are kept unchanged and
\* in order, the other employees and the templates are unchanged.
C4_RemoveEmployeeFrame ==
    [][lastOp'.op = "removeEmployee" =>
        LET KeepEmployee(e) == e.id # lastOp'.id
            KeepRecord(r) == r.employeeId # lastOp'.id
        IN  /\ lastOp'.id \notin IdsOf(employees')
            /\ employees' = SelectSeq(employees, KeepEmployee)
            /\ records' = SelectSeq(records, KeepRecord)
            /\ templates' = templates]_vars

\* C4 witness: an employee was removed together with at least one record,
\* and an employee and a record were left.
C4_Witness ==
    /\ lastOp.op = "removeEmployee"
    /\ lastOp.removed > 0
    /\ records # <<>>
    /\ employees # <<>>

\* C5: removeTemplate(id) removes the template with that id and exactly the
\* records whose stored templateId is id; a record without a stored
\* templateId whose trainingName is the removed template's name is kept
\* unchanged, and the employees are unchanged.
C5_RemoveTemplateFrame ==
    [][lastOp'.op = "removeTemplate" =>
        LET KeepTemplate(t) == t.id # lastOp'.id
            KeepRecord(r) == r.templateId # lastOp'.id
            name == templates[IndexOfId(templates, lastOp'.id)].name
        IN  /\ lastOp'.id \notin IdsOf(templates')
            /\ templates' = SelectSeq(templates, KeepTemplate)
            /\ records' = SelectSeq(records, KeepRecord)
            /\ \A i \in 1..Len(records) :
                (records[i].templateId = NoId /\ records[i].trainingName = name)
                    => \E j \in 1..Len(records') : records'[j] = records[i]
            /\ employees' = employees]_vars

\* C5 witness: a template was removed together with a record that referred
\* to it by id, and a record that has the template's name but no templateId
\* is still there.
C5_Witness ==
    /\ lastOp.op = "removeTemplate"
    /\ lastOp.removed > 0
    /\ \E i \in 1..Len(records) :
        records[i].templateId = NoId /\ records[i].trainingName = lastOp.name

\* The next-due date the resolver gives a stored record.
ResolvedNextDue(r, tmpls) == nextDueFor(r, ResolveTemplate(r, tmpls))

\* C6: Mark done sets the record's completionDate to today and clears its
\* dueDate, leaving its other fields and the other records unchanged;
\* afterwards its next-due date is addMonths(today, renewal) when renewal > 0
\* and absent otherwise, so never a stale stored dueDate.  Today is the
\* calendar date on the host's clock.
C6_MarkDoneSetsToday ==
    [][lastOp'.op = "markDone" =>
        LET i == IndexOfId(records, lastOp'.id)
            renewal == RenewalOf(records[i], ResolveTemplate(records[i], templates))
        IN  /\ records' = [records EXCEPT ![i] =
                              [@ EXCEPT !.completionDate = LocalToday, !.dueDate = None]]
            /\ ResolvedNextDue(records'[i], templates') =
                    IF renewal > 0 THEN addMonths(LocalToday, renewal) ELSE None]_vars

\* C7: Snooze 30 days stores dueDate = (the current next-due date, or today
\* when there is none) + 30 days and changes nothing else; so a record with a
\* completionDate and a positive renewal resolves to the same next-due date
\* as before, and any other record resolves to the new dueDate.
C7_SnoozeAddsThirtyDays ==
    [][lastOp'.op = "snooze" =>
        LET i == IndexOfId(records, lastOp'.id)
            before == ResolvedNextDue(records[i], templates)
            base == IF before # None THEN before ELSE LocalToday
            renewal == RenewalOf(records[i], ResolveTemplate(records[i], templates))
        IN  /\ records' = [records EXCEPT ![i] =
                              [@ EXCEPT !.dueDate = PlusDays(base, SnoozeDays)]]
            /\ ResolvedNextDue(records'[i], templates') =
                    IF records[i].completionDate # None /\ renewal > 0
                    THEN before ELSE records'[i].dueDate]_vars

\* Whether stored record rec, with the employees emps, has the employee
\* name, department, training name and dates of the exported row.
MatchesRow(rec, row, emps) ==
    /\ row.employee # None
    /\ \E k \in 1..Len(emps) :
        /\ emps[k].id = rec.employeeId
        /\ emps[k].name = row.employee[1].name
        /\ emps[k].department = row.employee[1].department
    /\ rec.trainingName = row.trainingName
    /\ rec.completionDate = row.completionDate
    /\ rec.dueDate = row.dueDate

\* C10: CSV round trip.  Importing the text exportCSV produced adds, for
\* every exported row, one record with the row's employee name, department,
\* training name, completionDate and dueDate (identities may differ), also
\* when a field holds a comma inside its quotes.
C10_CsvRoundTrip ==
    [][(lastOp'.op = "onload" /\ Len(reader) = 1 /\ reader[1].text = download
            /\ download = exportCSV(exported)) =>
        /\ Len(records') = Len(records) + Len(exported)
        /\ \A i \in 1..Len(exported) :
            MatchesRow(records'[Len(records) + i], exported[i], employees')]_vars

(***************************************************************************)
(* Claims about a failed import (checked under SpecCsv).                    *)
(***************************************************************************)
\* Whether the text holds a match of the expression the import splits at.
HasLineBreak(text) == \E i \in 1..Len(text) : LineBreakAt(text, i) > 0

ViewCompletions == {None, InvalidDate, <<2025, 8, 31>>}

ViewDues == {None, InvalidDate, <<2025, 9, 11>>}

ViewRecords ==
    {[id |-> 1, employeeId |-> 1, templateId |-> NoId, trainingName |-> <<"WHMIS">>,
      completionDate |-> c, dueDate |-> d, renewalMonths |-> m] :
        c \in ViewCompletions, d \in ViewDues, m \in {None, Some(12)}}

\* What the map callback of recordsEnriched gives for one record: whether it
\* raised, and the row's derived fields when it did not.
EnrichOutcome(r, tmpl, soon) ==
    IF nextDueForThrows(r, tmpl)
    THEN [threw |-> TRUE, nextDue |-> None, status |-> "", nextDueDays |-> None]
    ELSE [threw |-> FALSE, nextDue |-> EnrichResolved(r, None, tmpl, soon).nextDue,
          status |-> EnrichResolved(r, None, tmpl, soon).status,
          nextDueDays |-> EnrichResolved(r, None, tmpl, soon).nextDueDays]

CallEnrich ==
    /\ call.fn = "none"
    /\ \E r \in ViewRecords, t \in FnTemplates, w \in FnSoonWindows :
        /\ call' = [fn |-> "enrich", record |-> r, template |-> t, soon |-> w]
        /\ ret' = Some(EnrichOutcome(r, t, w))
        /\ UNCHANGED <<storeVars, uiVars, clockVars, lastOp, ops>>

\* The number of buckets of the monthly histogram: for (let i=0;i<12;i++).
HistogramMonths == 12

\* d.getFullYear() + "-" + String(d.getMonth() + 1).padStart(2, "0") of a
\* Date with local fields f.
MonthKey(f) == <<f.y, f.mi + 1>>

\* The histogram of rows whose month keys are those of the months first,
\* first + 1, ... after the month of the local fields f of "new Date()":
\* start.setDate(1); start.setHours(0,0,0,0); d.setMonth(d.getMonth() + i).
\* A row counts where its key is in the map; the key of a next-due string
\* that is not a date is "NaN-NaN", which never is.
MonthBuckets(rows, f, first) ==
    LET KeyAt(i) == MonthKey(LocalFields(MakeLocal(f.y, f.mi + first + i, 1, 0)))
        RowKey(r) == MonthKey(LocalFields(ParseLocal(r.nextDue)))
        Counted(r, k) == r.nextDue # None /\ r.nextDue # InvalidDate /\ RowKey(r) = k
    IN  [i \in 1..HistogramMonths |->
            [key |-> KeyAt(i - 1),
             count |-> Cardinality({j \in 1..Len(rows) : Counted(rows[j], KeyAt(i - 1))})]]

\* A histogram that starts with the month after the current one.
expByMonthAt_FromNextMonth(rows, t) == MonthBuckets(rows, LocalFields(t), 1)

\* expByMonth, computed at instant t: Object.entries(map) in insertion order.
expByMonthAt(rows, t) == MonthBuckets(rows, LocalFields(t), 0)

\* Next-due dates inside and around the twelve months that start with
\* September 2025, the month of the clock.
MonthDues ==
    {None, InvalidDate, <<2025, 8, 31>>, <<2025, 9, 1>>, <<2026, 2, 1>>, <<2026, 8, 31>>,
     <<2026, 9, 1>>}

MaxViewRows == 2

\* Enriched rows as far as the histograms read them.
DueRows(dues) ==
    UNION {[1..n -> {[nextDue |-> d] : d \in dues}] : n \in 0..MaxViewRows}

CallExpByMonth ==
    /\ call.fn = "none"
    /\ \E rows \in DueRows(MonthDues) :
        /\ call' = [fn |-> "expByMonth", rows |-> rows]
        /\ ret' = Some(expByMonthAt(rows, now))
        /\ UNCHANGED <<storeVars, uiVars, clockVars, lastOp, ops>>

\* const weeks = 12
Weeks == 12

DaysPerWeek == 7

\* The buckets of the weekly projection for the window that starts at the
\* instant start: diffDays = Math.floor((due - start) / (1000*60*60*24));
\* if (diffDays < 0) continue; idx = Math.floor(diffDays / 7);
\* if (idx >= 0 && idx < weeks) buckets[idx].count++.  The time value of a
\* next-due string that is not a date is NaN, and no comparison holds.
WeekBuckets(rows, start) ==
    LET DiffDays(r) == (ParseLocal(r.nextDue) - start) \div HoursPerDay
        Counted(r, idx) ==
            /\ r.nextDue # None
            /\ r.nextDue # InvalidDate
            /\ ~(DiffDays(r) < 0)
            /\ DiffDays(r) \div DaysPerWeek = idx
            /\ idx >= 0 /\ idx < Weeks
    IN  [i \in 1..Weeks |->
            [count |-> Cardinality({j \in 1..Len(rows) : Counted(rows[j], i - 1)})]]

\* A projection whose first week starts tomorrow.
weeklyAt_FromTomorrow(rows, t) == WeekBuckets(rows, LocalMidnight(t) + HoursPerDay)

\* The data of the weekly LineChart, computed at instant t:
\* const start = new Date(); start.setHours(0,0,0,0).
weeklyAt(rows, t) == WeekBuckets(rows, LocalMidnight(t))

\* Next-due dates around today and around the end of the twelfth week.
WeekDues ==
    {None, InvalidDate} \cup {PlusDays(Day0, k) : k \in {-1, 0, 1, 6, 7, 8, 83, 84, 85}}

CallWeekly ==
    /\ call.fn = "none"
    /\ \E rows \in DueRows(WeekDues) :
        /\ call' = [fn |-> "weekly", rows |-> rows]
        /\ ret' = Some(weeklyAt(rows, now))
        /\ UNCHANGED <<storeVars, uiVars, clockVars, lastOp, ops>>

\* In the filters a text (a name, a department, the search box) is the
\* sequence of its characters.  String.prototype.toLowerCase, on the letters
\* of this model:
LowerChar(c) ==
    CASE c = "A" -> "a" [] c = "B" -> "b" [] c = "C" -> "c" [] c = "H" -> "h"
      [] c = "L" -> "l" [] c = "O" -> "o" [] c = "P" -> "p" [] c = "R" -> "r"
      [] c = "V" -> "v" [] OTHER -> c

LowerText(text) == [i \in 1..Len(text) |-> LowerChar(text[i])]

\* String.prototype.includes
Includes(text, q) ==
    \E i \in 0..(Len(text) - Len(q)) : SubSeq(text, i + 1, i + Len(q)) = q

\* The "all" option of the department select.
AllDepartments == <<"a", "l", "l">>

\* The placeholder of a row without category or delivery mode (a dash in
\* the source).
Placeholder == "-"

\* r.template?.category || placeholder, r.template?.delivery || placeholder
CategoryOf(r) ==
    IF r.template = None \/ r.template[1].category = None THEN Placeholder
    ELSE r.template[1].category[1]

DeliveryOf(r) ==
    IF r.template = None \/ r.template[1].delivery = None THEN Placeholder
    ELSE r.template[1].delivery[1]

\* r.employee?.name.toLowerCase().includes(q) || r.trainingName.toLowerCase()
\* .includes(q) || r.employee?.department.toLowerCase().includes(q)
MatchesSearch(r, q) ==
    \/ r.employee # None /\ Includes(LowerText(r.employee[1].name), q)
    \/ Includes(LowerText(r.trainingName), q)
    \/ r.employee # None /\ Includes(LowerText(r.employee[1].department), q)

\* A horizon that leaves out its last day.
PassesHorizon_Strict(r, range) ==
    \/ r.nextDueDays = None
    \/ r.nextDueDays[1] # NaNDays /\ r.nextDueDays[1] < range

\* r.nextDueDays === null || r.nextDueDays <= range
PassesHorizon(r, range) ==
    \/ r.nextDueDays = None
    \/ r.nextDueDays[1] # NaNDays /\ r.nextDueDays[1] <= range

\* The comparator of the sort, ad - bd < 0: a has a next-due date, and b has
\* none (Infinity) or a later one.  The rows that reach the sort hold no
\* next-due string that is not a date, as the horizon drops those.
SortsBefore(a, b) ==
    /\ a.nextDue # None
    /\ \/ b.nextDue = None
       \/ DaysFromCivil(a.nextDue[1], a.nextDue[2], a.nextDue[3])
            < DaysFromCivil(b.nextDue[1], b.nextDue[2], b.nextDue[3])

\* Array.prototype.sort with that comparator: the sort is stable.
SortByNextDue(rows) ==
    LET Rank(i) == Cardinality({j \in 1..Len(rows) :
                        \/ SortsBefore(rows[j], rows[i])
                        \/ ~SortsBefore(rows[i], rows[j]) /\ j < i}) + 1
    IN  [k \in 1..Len(rows) |-> rows[CHOOSE i \in 1..Len(rows) : Rank(i) = k]]

\* The filters of one pass over a row: each is applied when it is set.  The
\* range select offers numbers only, so parseInt(rangeFilter, 10) is a
\* number.
PassesFilters(r, f) ==
    /\ f.department # AllDepartments =>
            (r.employee # None /\ r.employee[1].department = f.department)
    /\ f.status # "all" => r.status = f.status
    /\ f.category # "all" => CategoryOf(r) = f.category
    /\ f.delivery # "all" => DeliveryOf(r) = f.delivery
    /\ Trim(f.search) # <<>> => MatchesSearch(r, LowerText(f.search))
    /\ PassesHorizon(r, f.range)

filtered(rows, f) ==
    LET Keep(r) == PassesFilters(r, f) IN SortByNextDue(SelectSeq(rows, Keep))

\* statusCounts: a count per status, over recordsEnriched.
statusCounts(rows) ==
    LET Count(st) == Cardinality({j \in 1..Len(rows) : rows[j].status = st})
    IN  <<[key |-> "overdue", count |-> Count("overdue")],
          [key |-> "due-soon", count |-> Count("due-soon")],
          [key |-> "ok", count |-> Count("ok")],
          [key |-> "unscheduled", count |-> Count("unscheduled")]>>

\* A pass whose breakdown counts the filtered view.
DashboardViews_CountFiltered(rows, f) ==
    [filtered |-> filtered(rows, f), statusCounts |-> statusCounts(filtered(rows, f))]

\* The filtered view and the status breakdown of one render pass.
DashboardViews(rows, f) ==
    [filtered |-> filtered(rows, f), statusCounts |-> statusCounts(rows)]

\* Employees and templates as the filters read them.
Ava == [id |-> 1, name |-> <<"A", "v", "a">>, department |-> <<"O", "p", "s">>]

Bo == [id |-> 2, name |-> <<"B", "o">>, department |-> <<"H", "R">>]

SafetyTemplate ==
    [id |-> 1, name |-> <<"C", "P", "R">>, renewalMonths |-> None,
     category |-> Some("Safety"), delivery |-> Some("Workday")]

TechnicalTemplate ==
    [id |-> 2, name |-> <<"L", "i", "f", "t">>, renewalMonths |-> None,
     category |-> Some("Technical"), delivery |-> Some("In-person")]

PlainTemplate ==
    [id |-> 3, name |-> <<"C", "P", "R">>, renewalMonths |-> None,
     category |-> None, delivery |-> None]

\* A record of employee emp for training name, due on due.
FilterRecord(emp, name, due) ==
    [id |-> 1, employeeId |-> IF emp = None THEN NoId ELSE emp[1].id, templateId |-> NoId,
     trainingName |-> name, completionDate |-> None, dueDate |-> due, renewalMonths |-> None]

\* The rows the filters are applied to: due on the last day of the 30-day
\* horizon and on the two days after it, overdue, without a next-due date
\* and without employee or template, and with a next-due string that is not
\* a date.
FilterRows ==
    {EnrichResolved(FilterRecord(Some(Ava), <<"C", "P", "R">>, PlusDays(Day0, 30)),
                    Some(Ava), Some(SafetyTemplate), DefaultSoonWindow),
     EnrichResolved(FilterRecord(Some(Bo), <<"L", "i", "f", "t">>, PlusDays(Day0, 31)),
                    Some(Bo), Some(TechnicalTemplate), DefaultSoonWindow),
     EnrichResolved(FilterRecord(Some(Ava), <<"C", "P", "R">>, PlusDays(Day0, 32)),
                    Some(Ava), Some(SafetyTemplate), DefaultSoonWindow),
     EnrichResolved(FilterRecord(Some(Ava), <<"C", "P", "R">>, PlusDays(Day0, -1)),
                    Some(Ava), Some(PlainTemplate), DefaultSoonWindow),
     EnrichResolved(FilterRecord(None, <<"c", "p", "r">>, None),
                    None, None, DefaultSoonWindow),
     EnrichResolved(FilterRecord(Some(Bo), <<"L", "i", "f", "t">>, InvalidDate),
                    Some(Bo), None, DefaultSoonWindow)}

\* The settings of the filters: each select at its "all" option or at one
\* value, the search box empty, blank, or with a lower-case or an upper-case
\* query, the horizon at its least or at its greatest option.
FilterSettings ==
    [department : {AllDepartments, <<"O", "p", "s">>},
     status : {"all", "overdue"},
     category : {"all", "Safety"},
     delivery : {"all", "Workday"},
     search : {<<>>, <<" ">>, <<"c", "p">>, <<"A", "V">>},
     range : {30, 10000}]

CallDashboard ==
    /\ call.fn = "none"
    /\ \E n \in 0..MaxViewRows :
        \E rows \in [1..n -> FilterRows], f \in FilterSettings :
            /\ call' = [fn |-> "dashboard", rows |-> rows, filters |-> f]
            /\ ret' = Some(DashboardViews(rows, f))
            /\ UNCHANGED <<storeVars, uiVars, clockVars, lastOp, ops>>

NextView == CallEnrich \/ CallExpByMonth \/ CallWeekly \/ CallDashboard

SpecView == InitFn /\ [][NextView]_vars

(***************************************************************************)
(* Claims about the derived views (checked under SpecView).                 *)
(***************************************************************************)
\* Whether a stored date is a calendar date.
WellFormed(d) == d # None /\ d # InvalidDate

\* C12: for every record none of whose dates is usable (its completionDate
\* and its dueDate are each missing or a malformed date string), computing
\* the next-due date, the status and the enriched row does not raise, the
\* next-due date is absent and the status is unscheduled.
C12_MalformedDatesDegrade ==
    (call.fn = "enrich" /\ ~WellFormed(call.record.completionDate)
        /\ ~WellFormed(call.record.dueDate)) =>
            /\ ~ret[1].threw
            /\ ret[1].nextDue = None
            /\ ret[1].status = "unscheduled"

\* The year-month k months after the year-month ym.
MonthPlus(ym, k) ==
    <<(ym[1] * 12 + (ym[2] - 1) + k) \div 12, ((ym[1] * 12 + (ym[2] - 1) + k) % 12) + 1>>

\* The year-month of the calendar date on the host's clock.
CurrentMonth == <<LocalToday[1], LocalToday[2]>>

\* The number of rows whose next-due date lies in year-month ym.
DueInMonth(rows, ym) ==
    Cardinality({j \in 1..Len(rows) :
                    /\ WellFormed(rows[j].nextDue)
                    /\ <<rows[j].nextDue[1], rows[j].nextDue[2]>> = ym})

DaysAfterToday(d) ==
    DaysFromCivil(d[1], d[2], d[3])
        - DaysFromCivil(LocalToday[1], LocalToday[2], LocalToday[3])

Occurrences(seq, x) == Cardinality({j \in 1..Len(seq) : seq[j] = x})

\* C15: the status breakdown counts every row exactly once under its status
\* over the full enriched set: each of the four counts is the number of rows
\* with that status, whatever the filters are set to, and the four counts
\* sum to the number of rows (one per stored record).
C15_StatusBreakdown ==
    call.fn = "dashboard" =>
        /\ Len(ret[1].statusCounts) = 4
        /\ {ret[1].statusCounts[i].key : i \in 1..4} = Statuses
        /\ \A i \in 1..4 :
            ret[1].statusCounts[i].count =
                Cardinality({j \in 1..Len(call.rows) :
                                call.rows[j].status = ret[1].statusCounts[i].key})
        /\ ret[1].statusCounts[1].count + ret[1].statusCounts[2].count
            + ret[1].statusCounts[3].count + ret[1].statusCounts[4].count = Len(call.rows)

\* C15 witness: with the status filter set, the filtered view shows one of
\* two rows and the breakdown counts both.
C15_Witness ==
    /\ call.fn = "dashboard"
    /\ call.filters.status = "overdue"
    /\ Len(call.rows) = 2
    /\ Len(ret[1].filtered) = 1
    /\ ret[1].statusCounts[1].count = 1
    /\ ret[1].statusCounts[3].count = 1

\* Whether a row satisfies the filters that are active.
SatisfiesAll(r, f) ==
    /\ f.department # AllDepartments =>
            (r.employee # None /\ r.employee[1].department = f.department)
    /\ f.status # "all" => r.status = f.status
    /\ f.category # "all" =>
            (r.template # None /\ r.template[1].category = Some(f.category))
    /\ f.delivery # "all" =>
            (r.template # None /\ r.template[1].delivery = Some(f.delivery))
    /\ Trim(f.search) # <<>> =>
            \E text \in {r.trainingName} \cup
                        (IF r.employee = None THEN {}
                         ELSE {r.employee[1].name, r.employee[1].department}) :
                Includes(LowerText(text), LowerText(f.search))
    /\ r.nextDueDays = None \/ (r.nextDueDays[1] # NaNDays /\ r.nextDueDays[1] <= f.range)

\* C16: the filtered view contains exactly the enriched rows that satisfy
\* every active filter at once; the horizon N keeps a row iff its
\* daysUntil(nextDue) is absent or <= N, so unscheduled and overdue rows pass
\* it, a row due in N days passes and a row due in N + 1 days does not.
C16_FilteredView ==
    call.fn = "dashboard" =>
        /\ \A r \in FilterRows :
            Occurrences(ret[1].filtered, r) =
                IF SatisfiesAll(r, call.filters) THEN Occurrences(call.rows, r) ELSE 0
        /\ \A j \in 1..Len(call.rows) :
            LET passes == \E k \in 1..Len(ret[1].filtered) : ret[1].filtered[k] = call.rows[j]
            IN  (call.filters.department = AllDepartments /\ call.filters.status = "all"
                    /\ call.filters.category = "all" /\ call.filters.delivery = "all"
                    /\ Trim(call.filters.search) = <<>>) =>
                /\ call.rows[j].status \in {"unscheduled", "overdue"} => passes
                /\ call.rows[j].nextDueDays = Some(call.filters.range) => passes
                /\ call.rows[j].nextDueDays = Some(call.filters.range + 1) => ~passes

\* C16 witness: with the horizon at 30 days and no other filter, of a row due
\* in 30 days and a row due in 31 days the view holds the first only.
C16_Witness ==
    /\ call.fn = "dashboard"
    /\ call.filters.range = 30
    /\ Len(call.rows) = 2
    /\ call.rows[1].nextDueDays = Some(30)
    /\ call.rows[2].nextDueDays = Some(31)
    /\ ret[1].filtered = <<call.rows[1]>>

(***************************************************************************)
(* An import while employees are added and removed: the store is empty or   *)
(* holds the employee the import files name, entered through the form.      *)
(***************************************************************************)
\* The employee of the data line of the import files.
FileEmployee == [name |-> <<"Avery">>, department |-> <<"General">>]

InitImport ==
    /\ tz \in TzOffsets
    /\ now = ClockStart
    /\ formEmpId = NoId
    /\ formTmplId = NoId
    /\ tab = "dashboard"
    /\ reader = <<>>
    /\ download = <<>>
    /\ exported = <<>>
    /\ lastOp = [op |-> "init"]
    /\ ops = 0
    /\ call = [fn |-> "none"]
    /\ ret = None
    /\ \E emps \in {<<>>, <<[id |-> 1, name |-> FileEmployee.name,
                            department |-> FileEmployee.department]>>} :
        InitCsvStore(emps, <<>>)

NextImport == ImportCSV \/ ReaderOnload \/ AddEmployee \/ RemoveEmployee \/ SetTab

SpecImport == InitImport /\ [][NextImport]_vars

(***************************************************************************)
(* Claims about the employees of an import (checked under SpecImport).      *)
(***************************************************************************)
\* C17: importCSV resolves or creates employees by exact (name, department)
\* pair.  After an import is applied, each data row has produced exactly one
\* new record whose employeeId is the id of an employee that is in the
\* employees collection with the row's name and department, and no employee
\* was created for a pair that an employee of the collection or an employee
\* created earlier in the batch already has - also when addEmployee or
\* removeEmployee ran between the call of importCSV and the read's callback.
C17_ImportResolvesEmployees ==
    [][(lastOp'.op = "onload" /\ lastOp'.added > 0) =>
        /\ Len(records') = Len(records) + lastOp'.added
        /\ \A i \in (Len(records) + 1)..Len(records') :
            \E k \in 1..Len(employees') :
                /\ employees'[k].id = records'[i].employeeId
                /\ employees'[k].name = FileEmployee.name
                /\ employees'[k].department = FileEmployee.department
        /\ \A k \in (Len(employees) + 1)..Len(employees') :
            ~\E j \in 1..(k - 1) :
                /\ employees'[j].name = employees'[k].name
                /\ employees'[j].department = employees'[k].department]_vars

(***************************************************************************)
(* The program left open while the clock moves: the store holds one         *)
(* employee with one assignment that is due today, tomorrow or at the end   *)
(* of the month, entered through the forms.                                 *)
(***************************************************************************)
ClockDues == {Day0, PlusDays(Day0, 1), <<2025, 9, 30>>}

InitClock ==
    /\ tz \in TzOffsets
    /\ now = ClockStart
    /\ formEmpId = NoId
    /\ formTmplId = NoId
    /\ tab = "dashboard"
    /\ reader = <<>>
    /\ download = <<>>
    /\ exported = <<>>
    /\ lastOp = [op |-> "init"]
    /\ ops = 0
    /\ call = [fn |-> "none"]
    /\ ret = None
    /\ \E due \in ClockDues :
        InitCsvStore(<<[id |-> 1, name |-> <<"Avery">>, department |-> <<"General">>]>>,
                     assignTraining(<<>>, [employeeId |-> 1, templateId |-> NoId,
                                           trainingName |-> <<"WHMIS">>,
                                           completionDate |-> None,
                                           dueDate |-> due, renewalMonths |-> None]))

\* Time passes: no handler runs, no state of App changes, nothing renders.
Tick ==
    /\ now + TickHours <= ClockStart + MaxTicks * TickHours
    /\ now' = now + TickHours
    /\ lastOp' = [op |-> "tick", id |-> NoId]
    /\ UNCHANGED <<storeVars, uiVars, tz, ops, fnVars>>

NextClock == Tick \/ SetTab \/ MarkDone \/ ClearCompletion \/ Snooze \/ RemoveRecord

SpecClock == InitClock /\ [][NextClock]_vars

(***************************************************************************)
(* Claims about the clock (checked under SpecClock).                        *)
(***************************************************************************)
\* C18: the status shown for a record is a function of the current date.
\* Whenever App has rendered since the clock last moved - also when the
\* calendar day has advanced with no change to employees, templates, records
\* or soonWindowDays - each enriched row's status and nextDueDays are
\* statusFor and daysUntil evaluated against the current date.
C18_StatusFollowsClock ==
    lastOp.op # "tick" =>
        /\ Len(recordsEnriched) = Len(records)
        /\ \A i \in 1..Len(records) :
            /\ recordsEnriched[i].status =
                    statusFor(records[i], ResolveTemplate(records[i], templates),
                              soonWindowDays)
            /\ recordsEnriched[i].nextDueDays =
                    daysUntil(ResolvedNextDue(records[i], templates))

(***************************************************************************)
(* The add operations with uid() as the draw it is: Math.random()           *)
(* .toString(36).slice(2, 10) is one of finitely many strings (at most 8    *)
(* characters of 36), whichever the generator gives; no handler looks at    *)
(* the identities in use.                                                   *)
(***************************************************************************)
\* The number of strings uid() draws from (36^8 and the shorter ones in the
\* program).
MaxUid == 3

UidDraws == 1..MaxUid

\* The number of elements each collection grows to.
MaxUidItems == 2

AddEmployeeUid ==
    /\ tab = "data"
    /\ Len(employees) < MaxUidItems
    /\ \E id \in UidDraws, name \in EmployeeNames :
        /\ employees' = Append(employees, [id |-> id, name |-> name,
                                           department |-> <<"General">>])
        /\ recordsEnriched' = Render(records, employees', templates, soonWindowDays)
        /\ Handled([op |-> "addEmployee", id |-> id])
    /\ UNCHANGED <<templates, records, soonWindowDays, uiVars, clockVars, fnVars>>

AddTemplateUid ==
    /\ tab = "data"
    /\ Len(templates) < MaxUidItems
    /\ \E id \in UidDraws, name \in TemplateNames, renewal \in TemplateRenewalInputs :
        /\ templates' = Append(templates, [id |-> id, name |-> name,
                                           renewalMonths |-> renewal])
        /\ recordsEnriched' = Render(records, employees, templates', soonWindowDays)
        /\ Handled([op |-> "addTemplate", id |-> id])
    /\ UNCHANGED <<employees, records, soonWindowDays, uiVars, clockVars, fnVars>>

\* The Assign button with a custom training name and a due date, for the
\* employee selected in the form.
AssignUid ==
    /\ tab = "data"
    /\ Len(records) < MaxUidItems
    /\ formEmpId # NoId
    /\ \E id \in UidDraws :
        /\ records' = Append(records,
                [id |-> id, employeeId |-> formEmpId, templateId |-> formTmplId,
                 trainingName |-> <<"WHMIS">>, completionDate |-> None,
                 dueDate |-> <<2025, 9, 30>>, renewalMonths |-> None])
        /\ recordsEnriched' = Render(records', employees, templates, soonWindowDays)
        /\ Handled([op |-> "assign", id |-> id, override |-> None])
    /\ formEmpId' = NoId
    /\ formTmplId' = NoId
    /\ UNCHANGED <<employees, templates, soonWindowDays, tab, reader, download, exported,
                   clockVars, fnVars>>

NextUid == AddEmployeeUid \/ AddTemplateUid \/ AssignUid \/ SelectEmployee \/ SetTab

SpecUid == Init /\ [][NextUid]_vars

(***************************************************************************)
(* Claims about identities (checked under SpecUid).                         *)
(***************************************************************************)
\* Whether the identities of a collection are pairwise distinct.
DistinctIds(seq) == \A i, j \in 1..Len(seq) : i # j => seq[i].id # seq[j].id

\* C19: every add operation assigns an identity that differs from every
\* identity already in the same collection, so after any sequence of
\* operations the ids within employees, within templates and within records
\* are pairwise distinct.
C19_UniqueIdentities ==
    /\ DistinctIds(employees)
    /\ DistinctIds(templates)
    /\ DistinctIds(records)

(***************************************************************************)
(* Claims about the renewal override (checked under Spec).                  *)
(***************************************************************************)
\* C20: a renewal override given for a record, the value 0 included, takes
\* precedence over the template's renewal interval: for the record an
\* assignment created with an override present, the renewal the resolver
\* uses is the override.
C20_OverrideTakesPrecedence ==
    (lastOp.op = "assign" /\ lastOp.override # None)
        => \A i \in 1..Len(records) :
               records[i].id = lastOp.id
                   => RenewalOf(records[i], ResolveTemplate(records[i], templates))
                          = lastOp.override[1]

(***************************************************************************)
(* One evaluation pass of recordsEnriched on one record, call by call,      *)
(* while the clock moves.  The map callback reads the clock twice: statusFor *)
(* calls daysUntil, and the object literal calls daysUntil(nd) again        *)
(* (App.tsx:145-146); each daysUntil takes its own "new Date()"             *)
(* (App.tsx:36).  The records are those of FnRecords, whose dates are       *)
(* calendar dates.                                                          *)
(***************************************************************************)
\* const nd = nextDueFor(r, tmpl): the pass begins, no clock is read yet.
PassBegin ==
    /\ call.fn = "none"
    /\ \E r \in FnRecords, t \in FnTemplates, w \in FnSoonWindows :
        call' = [fn |-> "recordsEnriched", record |-> r, template |-> t, soon |-> w,
                 pc |-> "statusFor", nd |-> nextDueFor(r, t), st |-> ""]
    /\ ret' = None
    /\ UNCHANGED <<storeVars, uiVars, clockVars, lastOp, ops>>

\* const st = statusFor(r, tmpl, soonWindowDays): the first reading.
PassStatusFor ==
    /\ call.fn = "recordsEnriched"
    /\ call.pc = "statusFor"
    /\ call' = [call EXCEPT !.st = statusFor(call.record, call.template, call.soon),
                            !.pc = "daysUntil"]
    /\ UNCHANGED <<storeVars, uiVars, clockVars, lastOp, ops, ret>>

\* return { ...r, ..., status: st, nextDueDays: daysUntil(nd) }: the second
\* reading, and the row.
PassDaysUntil ==
    /\ call.fn = "recordsEnriched"
    /\ call.pc = "daysUntil"
    /\ call' = [call EXCEPT !.pc = "done"]
    /\ ret' = Some(EnrichedRow(call.record, None, call.template, call.nd, call.st))
    /\ UNCHANGED <<storeVars, uiVars, clockVars, lastOp, ops>>

NextPass == PassBegin \/ PassStatusFor \/ PassDaysUntil \/ Tick

SpecPass == InitFn /\ [][NextPass]_vars

(***************************************************************************)
(* Claims about one evaluation pass (checked under SpecPass).               *)
(***************************************************************************)
\* C21: within one evaluation pass the derived fields of an enriched row
\* are mutually consistent, also when the clock passes midnight during the
\* pass: status is unscheduled iff nextDueDays is absent, overdue iff
\* nextDueDays < 0, due-soon iff 0 <= nextDueDays <= soonWindowDays, and ok
\* iff nextDueDays > soonWindowDays.
C21_PassConsistent ==
    (call.fn = "recordsEnriched" /\ ret # None) =>
        LET row == ret[1]
            d == row.nextDueDays
        IN  /\ (row.status = "unscheduled") <=> (d = None)
            /\ (row.status = "overdue") <=> (d # None /\ d[1] < 0)
            /\ (row.status = "due-soon") <=> (d # None /\ 0 <= d[1] /\ d[1] <= call.soon)
            /\ (row.status = "ok") <=> (d # None /\ d[1] > call.soon)

(***************************************************************************)
(* The quick actions of the table on one assignment entered through the     *)
(* forms: one employee, the template WHMIS with a renewal of 12 months, and *)
(* one record, assigned with or without the template, a completion date, a  *)
(* due date and a renewal override.                                         *)
(***************************************************************************)
QuickTemplate == [id |-> 1, name |-> <<"WHMIS">>, renewalMonths |-> Some(12)]

QuickAssignments ==
    {[employeeId |-> 1, templateId |-> t, trainingName |-> <<"WHMIS">>,
      completionDate |-> c, dueDate |-> d, renewalMonths |-> m] :
        t \in {NoId, 1}, c \in {None, <<2025, 8, 31>>}, d \in CsvDues,
        m \in {None, Some(1)}}

InitQuick ==
    /\ tz \in TzOffsets
    /\ now = ClockStart
    /\ formEmpId = NoId
    /\ formTmplId = NoId
    /\ tab = "dashboard"
    /\ reader = <<>>
    /\ download = <<>>
    /\ exported = <<>>
    /\ lastOp = [op |-> "init"]
    /\ ops = 0
    /\ call = [fn |-> "none"]
    /\ ret = None
    /\ employees = <<[id |-> 1, name |-> <<"Avery">>, department |-> <<"General">>]>>
    /\ templates = <<QuickTemplate>>
    /\ soonWindowDays = DefaultSoonWindow
    /\ \E data \in QuickAssignments : records = assignTraining(<<>>, data)
    /\ recordsEnriched = Render(records, employees, templates, soonWindowDays)

NextQuick == MarkDone \/ ClearCompletion \/ Snooze \/ RemoveRecord \/ SetTab \/ Tick

SpecQuick == InitQuick /\ [][NextQuick]_vars

(***************************************************************************)
(* Claims about the quick actions (checked under SpecQuick).                *)
(***************************************************************************)
\* C22: Clear completion does not undo Mark done.  Mark done followed by
\* Clear completion on the same record leaves it with neither a
\* completionDate nor a dueDate (the dueDate stored before Mark done is not
\* restored) and with its renewal override, employeeId, templateId and
\* trainingName unchanged, so its status is unscheduled whatever it was
\* before.
C22_ClearDoesNotUndoMarkDone ==
    (lastOp.op = "clearCompletion" /\ lastOp.undone # None) =>
        LET before == lastOp.undone[1]
        IN  /\ \E i \in 1..Len(records) : records[i].id = lastOp.id
            /\ \A i \in 1..Len(records) :
                records[i].id = lastOp.id =>
                    /\ records[i].completionDate = None
                    /\ records[i].dueDate = None
                    /\ records[i].renewalMonths = before.renewalMonths
                    /\ records[i].employeeId = before.employeeId
                    /\ records[i].templateId = before.templateId
                    /\ records[i].trainingName = before.trainingName
                    /\ statusFor(records[i], ResolveTemplate(records[i], templates),
                                 soonWindowDays) = "unscheduled"
                    /\ recordsEnriched[i].status = "unscheduled"

\* C22 witness: Clear completion right after Mark done, on a record that
\* had a dueDate and a renewal override before Mark done.
C22_Witness ==
    /\ lastOp.op = "clearCompletion"
    /\ lastOp.undone # None
    /\ lastOp.undone[1].dueDate # None
    /\ lastOp.undone[1].renewalMonths # None
    /\ lastOp.undone[1].templateId # NoId
    /\ \E i \in 1..Len(records) :
        /\ records[i].id = lastOp.id
        /\ records[i].dueDate = None
        /\ records[i].renewalMonths = lastOp.undone[1].renewalMonths

====
